---- MODULE Spec2Model ----
(***************************************************************************)
(* CharLib characterization engine: the test managers of                   *)
(* characterizer/TestManager.py (TestManager, CombinationalTestManager,    *)
(* SequentialTestManager) as a state machine.                              *)
(*                                                                         *)
(* Times are integers.  Slew rates, loads and the setup/hold offsets are   *)
(* counted in ticks of 1/256 of the library time unit, so that the          *)
(* midpoints the binary searches compute stay exact (HalvingExact below    *)
(* checks it).  Simulator measurements are counted in their own raw        *)
(* ticks; 1.0 s, the "very large" initial prev_t_prop, is PrevInit ticks.  *)
(***************************************************************************)
EXTENDS Integers, Sequences, FiniteSets, TLC

VARIABLES
    kind,               \* "comb": CombinationalTestManager, "seq": SequentialTestManager
    in_slews,           \* TestManager._in_slews
    out_loads,          \* TestManager._out_loads
    stored_test_vectors, \* TestManager.stored_test_vectors (<<>>: none supplied)
    test_vectors,       \* what the test_vectors property returned to characterize
    definition_ports,   \* the ports of the netlist's .SUBCKT line, upper case
    use_multithreaded,  \* settings.use_multithreaded
    simulator,          \* settings.simulator
    sim,                \* the external simulator: a deterministic oracle
    pc,                 \* position of the thread that called characterize
    err,                \* the exception characterize raised ("" when none)
    ci,                 \* capacitance loop: index into the pins measured
    vi,                 \* test vector loop: index into test_vectors
    si,                 \* slew loop index of the sequential trial loop
    li,                 \* load loop index of the sequential trial loop
    ai,                 \* table assembly: index into the (out_port, in_port) pairs
    harness,            \* the harness of the test vector being run
    unsorted_harnesses, \* characterize's list of finished harnesses
    harnesses,          \* comb: the worst-case harnesses; seq: all harnesses
    threads,            \* threadlist: the state of each worker thread
    mainTrial,          \* the calling thread has a simulator call in flight
    capacitance,        \* pin name -> measured input capacitance
    timing,             \* out pin -> related pin -> table name -> table
    simCalls,           \* simulator calls made during the current characterize call
    wireErrs,           \* trials of the current call that raised on port matching
    trialsAfterWireErr, \* trials started after a trial had raised on port matching
    runs,               \* characterize calls that returned
    firstTiming,        \* timing as the first returned characterize call left it
    sim_timestep,       \* TestManager._sim_timestep
    clock_slew,         \* SequentialTestManager._clock_slew
    sim_setup_highest,  \* SequentialTestManager._sim_setup_highest
    sim_setup_lowest,   \* SequentialTestManager._sim_setup_lowest
    sim_setup_timestep, \* SequentialTestManager._sim_setup_timestep
    sim_hold_highest,   \* SequentialTestManager._sim_hold_highest
    sim_hold_lowest,    \* SequentialTestManager._sim_hold_lowest
    sim_hold_timestep,  \* SequentialTestManager._sim_hold_timestep
    phase,              \* _run_delay: "none", or the search running: "setup", "hold"
    t_min,              \* the search's lower bound
    t_max,              \* the search's upper bound
    t_cur,              \* the search's midpoint (its local t_setup or t_hold)
    prev_t_prop,        \* the search's prev_t_prop
    t_setup,            \* _run_delay: the setup time _find_setup_time returned
    t_hold,             \* _run_delay: the hold time _find_hold_time returned
    nTrials,            \* trials the running search has started
    lastFailed,         \* the search's local 'failed' of its last iteration
    trialArgs,          \* t_setup and t_hold of the last call of _run_delay_trial
    storedAt,           \* result slot -> t_setup and t_hold of the trial stored in it
    lastOp,             \* the last setter called and whether it raised
    flop_pins,          \* the flip-flop's clock, set and reset trigger edges and its outputs
    simFails,           \* combinational trials of the current call whose simulation failed
    searchLog,          \* the searches _run_delay has invoked for the current harness
    writers,            \* result slot -> the worker threads that have written it
    modeEvals,          \* evaluations of the threading condition during the current call
    cells,              \* Characterizer.cells
    passed,             \* the cells passed to Characterizer.characterize
    characterized,      \* the cells whose characterize has been called, in call order
    ki                  \* Characterizer.characterize: index into the cells iterated

\* What a characterize call reads and never writes.
config == <<kind, flop_pins, in_slews, out_loads, stored_test_vectors, definition_ports,
            use_multithreaded, simulator, sim, sim_timestep, clock_slew,
            sim_setup_highest, sim_setup_lowest, sim_setup_timestep,
            sim_hold_highest, sim_hold_lowest, sim_hold_timestep, lastOp>>

\* The locals of _run_delay and of the search it runs.
search == <<phase, t_min, t_max, t_cur, prev_t_prop, t_setup, t_hold, nTrials,
           lastFailed, trialArgs>>

\* What the model records about a characterize call.
trace == <<simFails, searchLog, writers, modeEvals, storedAt>>

\* The Characterizer and its characterize call.
library == <<cells, passed, characterized, ki>>

vars == <<library, trace, config, test_vectors, search, pc, err, ci, vi, si, li, ai,
          harness, unsorted_harnesses, harnesses, threads, mainTrial,
          capacitance, timing, simCalls, wireErrs, trialsAfterWireErr,
          runs, firstTiming>>

(***************************************************************************)
(* Bounds of the model.                                                    *)
(***************************************************************************)
MaxSlews == 2
MaxLoads == 2
MaxGrid == 4
MaxVectors == 5
MaxRuns == 2
MaxBias == 2
MaxFail == 2
MaxCells == 3
MaxPassed == 2

\* Ticks per library time unit.
Tick == 2 ^ 8

\* prev_t_prop = 1.0 (seconds), in raw measurement ticks.
PrevInit == 100

(***************************************************************************)
(* The cell under test: a two-input, one-output combinational cell, or a   *)
(* flip-flop with two data inputs, one or two outputs, one register, a    *)
(* clock, a set and a reset pin.  The constructor of the sequential manager parses  *)
(* kwargs 'set' and 'reset' with _parse_triggered_pin (lines 570-571),     *)
(* which raises for a value that is not a string: every manager there is   *)
(* has both pins.                                                          *)
(***************************************************************************)
in_ports == IF kind = "comb" THEN <<"A", "B">> ELSE <<"D", "E">>
out_ports == IF kind = "comb" THEN <<"Y">> ELSE flop_pins.out_ports
clock_name == "CLK"
set_name == "SET"
reset_name == "RST"
clock_trigger == flop_pins.clock
set_trigger == flop_pins.set
reset_trigger == flop_pins.reset

\* Lines 1239-1241: the trigger edges _parse_triggered_pin accepts.
Edges == {"posedge", "negedge"}
FlopPins == [clock : Edges, set : Edges, reset : Edges,
             out_ports : {<<"Q">>, <<"Q", "QN">>}]

\* The flip-flop the characterize calls are modelled on.
ModelPins == [clock |-> "posedge", set |-> "posedge", reset |-> "negedge",
              out_ports |-> <<"Q">>]
flops == <<"IQ">>
VddName == "VDD"
VssName == "VSS"
Pins == {"A", "B", "Y", "D", "E", "Q", "QN", "CLK", "SET", "RST"}

\* The i-th configured slew rate and load (ticks): lists that are not sorted
\* and that repeat a value from the third entry on; one list of slew rates
\* holds the same value twice.
SlewAt(i) == IF i % 2 = 1 THEN 20 * Tick ELSE 10 * Tick
LoadAt(i) == IF i % 2 = 1 THEN 1 ELSE 2

SlewLists ==
    {[i \in 1..k |-> SlewAt(i)] : k \in 0..MaxSlews}
        \cup {<<SlewAt(2), SlewAt(2)>>}
LoadLists == {[i \in 1..k |-> LoadAt(i)] : k \in 0..MaxLoads}

\* Combinational test vectors, over the pins in_ports \o out_ports.  The first
\* two exercise the same arc (A -> Y, rise) under different stable levels of B.
CombVectorPool ==
    << <<"01", "1", "01">>,
       <<"01", "0", "01">>,
       <<"10", "1", "10">>,
       <<"1", "01", "01">>,
       <<"1", "10", "10">>,
       <<"10", "0", "10">> >>

\* Sequential test vectors, over clock, set, reset, registers, in_ports,
\* out_ports, with set and reset at the inactive levels of ModelTriggers: the
\* four vectors the test_vectors property generates, then two that repeat an
\* arc under another stable level of the other data input.
SeqVectorPool ==
    << <<"0101", "0", "1", "0", "01", "0", "01">>,
       <<"0101", "0", "1", "0", "10", "0", "10">>,
       <<"0101", "0", "1", "0", "0", "01", "01">>,
       <<"0101", "0", "1", "0", "0", "10", "10">>,
       <<"0101", "0", "1", "0", "01", "1", "01">>,
       <<"0101", "0", "1", "0", "10", "1", "10">> >>

\* A stored sequential test vector that gives the data input E a state that
\* is neither '0' nor '1'.
UnknownStateVector == <<"0101", "0", "1", "0", "01", "X", "01">>

VectorPool(k) == IF k = "comb" THEN CombVectorPool ELSE SeqVectorPool
VectorAt(k, i) == VectorPool(k)[((i - 1) % Len(VectorPool(k))) + 1]
VectorLists(k) ==
    {[i \in 1..n |-> VectorAt(k, i)] : n \in (MaxVectors - 1)..MaxVectors}

\* pin.function.test_vectors of the output Y = A & B: one vector per input and
\* direction, the other input at the level that lets the transition through.
FunctionTestVectors(out) ==
    << CombVectorPool[1], CombVectorPool[3], CombVectorPool[4], CombVectorPool[5] >>

RECURSIVE Concat(_, _)
\* The concatenation of the sequences seqs[i], from index i on.
Concat(seqs, i) == IF i > Len(seqs) THEN <<>> ELSE seqs[i] \o Concat(seqs, i + 1)

\* Lines 287-290: the vectors of every output port's function, in port order.
CombGenerated ==
    Concat([o \in DOMAIN out_ports |-> FunctionTestVectors(out_ports[o])], 1)

\* Lines 847-859: the vector of one (q_target, d_target, direction).
SeqVector(q_target, d_target, direction) ==
    << IF clock_trigger = "posedge" THEN "0101" ELSE "1010" >>
        \o << IF set_trigger = "posedge" THEN "0" ELSE "1" >>
        \o << IF reset_trigger = "posedge" THEN "0" ELSE "1" >>
        \o [f \in DOMAIN flops |-> "0"]
        \o [d \in DOMAIN in_ports |-> IF d = d_target THEN direction ELSE "0"]
        \o [q \in DOMAIN out_ports |-> IF q = q_target THEN direction ELSE "0"]

\* One vector per triple, the data inputs in the outer loop.
SeqGeneratedInputOuter ==
    [n \in 1..(Len(out_ports) * Len(in_ports) * 2) |->
        SeqVector((((n - 1) \div 2) % Len(out_ports)) + 1,
                  ((n - 1) \div (2 * Len(out_ports))) + 1,
                  <<"01", "10">>[((n - 1) % 2) + 1])]

\* Lines 843-861: the loops over out_ports, in_ports and ['01', '10'].
SeqGenerated ==
    [n \in 1..(Len(out_ports) * Len(in_ports) * 2) |->
        SeqVector(((n - 1) \div (2 * Len(in_ports))) + 1,
                  (((n - 1) \div 2) % Len(in_ports)) + 1,
                  <<"01", "10">>[((n - 1) % 2) + 1])]

Generated == IF kind = "comb" THEN CombGenerated ELSE SeqGenerated

\* A property that generates whatever was stored.
TestVectorsGenerated(stored) == Generated

\* The test_vectors property (lines 284-285, 841-842): the stored vectors when
\* the list is not empty, generated ones otherwise.
TestVectorsProperty(stored) == IF stored # <<>> THEN stored ELSE Generated

MatchedPorts(k) ==
    IF k = "comb" THEN <<"A", "B", "Y", "VDD", "VSS">>
    ELSE <<"D", "E", "CLK", "SET", "RST", "Q", "VDD", "VSS">>

\* The .SUBCKT line names the cell's pins and the supplies, or one more port.
DefinitionPorts(k) == {MatchedPorts(k), Append(MatchedPorts(k), "VNB")}

Directions == <<"rise", "fall">>

(***************************************************************************)
(* Sequence helpers.                                                       *)
(***************************************************************************)
RECURSIVE SelectSeqBy(_, _, _)
\* The subsequence of s whose elements are in the set keep, from index i on.
SelectSeqBy(s, keep, i) ==
    IF i > Len(s) THEN <<>>
    ELSE (IF s[i] \in keep THEN <<s[i]>> ELSE <<>>) \o SelectSeqBy(s, keep, i + 1)

Range(s) == {s[i] : i \in DOMAIN s}

Min(S) == CHOOSE x \in S : \A y \in S : x <= y
Max(S) == CHOOSE x \in S : \A y \in S : x >= y

\* str(value) of a slew rate or a load, as the results map and the table
\* index lists use it.
Str(v) == ToString(v)

(***************************************************************************)
(* Harness: one stimulus scenario, built from one test vector.  A harness  *)
(* is the record [vec, results]; the port roles are read off the vector.   *)
(***************************************************************************)
Transitions == {"01", "10"}

RoleSeq(names, role) == [i \in DOMAIN names |-> [name |-> names[i], role |-> role]]

\* The pins a test vector assigns, in the vector's order.
Layout ==
    (IF kind = "comb" THEN <<>>
     ELSE RoleSeq(<<clock_name>>, "clock") \o RoleSeq(<<set_name>>, "set")
          \o RoleSeq(<<reset_name>>, "reset") \o RoleSeq(flops, "flop"))
    \o RoleSeq(in_ports, "in") \o RoleSeq(out_ports, "out")

TargetIndex(vec, role) ==
    Min({i \in DOMAIN Layout : Layout[i].role = role /\ vec[i] \in Transitions})

DirectionOf(symbol) == IF symbol = "01" THEN "rise" ELSE "fall"

target_in_port(h) == Layout[TargetIndex(h.vec, "in")].name
target_out_port(h) == Layout[TargetIndex(h.vec, "out")].name
in_direction(h) == DirectionOf(h.vec[TargetIndex(h.vec, "in")])
out_direction(h) == DirectionOf(h.vec[TargetIndex(h.vec, "out")])

RECURSIVE OtherPorts(_, _, _)
\* The pins of the given role other than the target, with their states.
OtherPorts(vec, role, i) ==
    IF i > Len(Layout) THEN <<>>
    ELSE (IF Layout[i].role = role /\ i # TargetIndex(vec, role)
          THEN << [name |-> Layout[i].name, state |-> vec[i]] >>
          ELSE <<>>) \o OtherPorts(vec, role, i + 1)

stable_in_ports(h) == OtherPorts(h.vec, "in", 1)
nontarget_out_ports(h) == OtherPorts(h.vec, "out", 1)

\* One slot of the results map: empty until a trial stores its result.
Unset == [filled |-> FALSE, prop_in_out |-> 0, trans_out |-> 0]

ResultKeys == {<<Str(in_slews[i]), Str(out_loads[j])>> :
                  i \in DOMAIN in_slews, j \in DOMAIN out_loads}

\* Harness(target_cell, test_vector): no result stored yet.
NewHarness(vec) == [vec |-> vec, results |-> [k \in ResultKeys |-> Unset]]

NoHarness == [vec |-> <<>>, results |-> <<>>]

(***************************************************************************)
(* The external simulator.  It is deterministic: sim, fixed by Init, names *)
(* one behaviour of a bounded family.  The trial of the failVec-th test    *)
(* vector at the first slew rate and the first load does not converge.     *)
(***************************************************************************)
Symbols == <<"0", "1", "01", "10", "0101", "1010", "X">>
SymbolCode(symbol) == CHOOSE c \in DOMAIN Symbols : Symbols[c] = symbol

RECURSIVE VecCode(_, _)
VecCode(vec, i) ==
    IF i > Len(vec) THEN 0 ELSE i * SymbolCode(vec[i]) + VecCode(vec, i + 1)

Sims == [free : {FALSE}, bias : 0..MaxBias, failVec : 0..MaxFail]

Failed == [filled |-> FALSE, prop_in_out |-> -1, trans_out |-> -1]

SimFails(vec, slew, load) ==
    /\ sim.failVec \in DOMAIN test_vectors
    /\ test_vectors[sim.failVec] = vec
    /\ slew = in_slews[1]
    /\ load = out_loads[1]

\* simulator.transient(...) of a combinational delay trial: the measurements
\* prop_in_out and trans_out, or Failed.
Transient(vec, slew, load) ==
    IF SimFails(vec, slew, load) THEN Failed
    ELSE [filled |-> TRUE,
          prop_in_out |-> (1 + ((VecCode(vec, 1) * sim.bias) % 3)) * (slew \div Tick) + load,
          trans_out |-> (slew \div (2 * Tick)) + 3 * load]

\* Below this setup or hold offset the flip-flop slows down.
Knee == Tick * (1 + sim.bias)
Penalty(t) == IF t < Knee THEN (Knee - t) \div (Tick \div 4) ELSE 0

\* simulator.transient(...) of a sequential delay trial.
TransientSeq(vec, slew, load, setup, hold) ==
    IF SimFails(vec, slew, load) /\ setup < Knee THEN Failed
    ELSE [filled |-> TRUE,
          prop_in_out |-> (1 + ((VecCode(vec, 1) * sim.bias) % 3)) * (slew \div Tick)
                              + load + Penalty(setup) + Penalty(hold),
          trans_out |-> (slew \div (2 * Tick)) + 3 * load]

\* What a sequential trial may return.  A free simulator (the search's own
\* specification) returns a failure, a faster or a slower measurement.
SimOutcomes(vec, slew, load, setup, hold) ==
    IF sim.free
    THEN {Failed} \cup {[filled |-> TRUE, prop_in_out |-> p, trans_out |-> 0] :
                           p \in {prev_t_prop - 1, prev_t_prop + 1}}
    ELSE {TransientSeq(vec, slew, load, setup, hold)}

\* simulator.ac(...) and the linear fit of _run_input_capacitance.
InputCapacitance(pin) == 1 + sim.bias

(***************************************************************************)
(* CombinationalTestManager._run_delay_trial: wiring of the device under   *)
(* test (lines 465-493).                                                   *)
(***************************************************************************)
Names(ports) == {ports[i].name : i \in DOMAIN ports}

RECURSIVE StableConnections(_, _, _)
\* Lines 479-486: the inner loop over harness.stable_in_ports.
StableConnections(port, stable, i) ==
    IF i > Len(stable) THEN <<>>
    ELSE (IF port = stable[i].name
          THEN (IF stable[i].state = "1" THEN <<"vhigh">>
                ELSE IF stable[i].state = "0" THEN <<"vlow">>
                ELSE <<"raise">>)
          ELSE <<>>) \o StableConnections(port, stable, i + 1)

RECURSIVE FloatConnections(_, _, _)
\* Lines 488-490: the inner loop over harness.nontarget_out_ports.
FloatConnections(port, nontarget, i) ==
    IF i > Len(nontarget) THEN <<>>
    ELSE (IF port = nontarget[i].name THEN <<"wfloat">> ELSE <<>>)
         \o FloatConnections(port, nontarget, i + 1)

PortConnections(port, h) ==
    IF port = target_in_port(h) THEN <<"vin">>
    ELSE IF port = target_out_port(h) THEN <<"vout">>
    ELSE IF port = VddName THEN <<"vdd_dyn">>
    ELSE IF port = VssName THEN <<"vss_dyn">>
    ELSE IF port \in Names(stable_in_ports(h))
         THEN StableConnections(port, stable_in_ports(h), 1)
    ELSE IF port \in Names(nontarget_out_ports(h))
         THEN FloatConnections(port, nontarget_out_ports(h), 1)
    ELSE <<>>

RECURSIVE Connections(_, _, _)
Connections(ports, h, i) ==
    IF i > Len(ports) THEN <<>>
    ELSE PortConnections(ports[i], h) \o Connections(ports, h, i + 1)

\* Lines 491-492: "ok", or the exception the wiring raises before the
\* simulator is created.
WiringOutcome(connections) ==
    IF "raise" \in Range(connections) THEN "InvalidState"
    ELSE IF Len(connections) # Len(definition_ports) THEN "WiringError"
    ELSE "ok"

(***************************************************************************)
(* SequentialTestManager._wire_subcircuit (lines 1000-1033).               *)
(***************************************************************************)
SeqPortConnections(port, h) ==
    IF port = target_in_port(h) THEN <<"vin">>
    ELSE IF port = target_out_port(h) THEN <<"vout">>
    ELSE IF port = VddName THEN <<"vdd_dyn">>
    ELSE IF port = VssName THEN <<"vss_dyn">>
    ELSE IF port = clock_name THEN <<"vcin">>
    ELSE IF port = reset_name THEN <<"vrin">>
    ELSE IF port = set_name THEN <<"vsin">>
    ELSE IF port \in Names(stable_in_ports(h))
         THEN StableConnections(port, stable_in_ports(h), 1)
    ELSE IF port \in Names(nontarget_out_ports(h))
         THEN FloatConnections(port, nontarget_out_ports(h), 1)
    ELSE <<>>

RECURSIVE wire_subcircuit(_, _, _)
wire_subcircuit(ports, h, i) ==
    IF i > Len(ports) THEN <<>>
    ELSE SeqPortConnections(ports[i], h) \o wire_subcircuit(ports, h, i + 1)

\* The wiring of a delay trial of either manager.
Wiring(h) ==
    IF kind = "comb" THEN WiringOutcome(Connections(definition_ports, h, 1))
    ELSE WiringOutcome(wire_subcircuit(definition_ports, h, 1))

(***************************************************************************)
(* The thresholds of the prop_in_out measurement a delay trial asks the    *)
(* simulator for: the trigger on v(vin) and the target on v(vout).         *)
(***************************************************************************)
\* Lines 502-511.
CombPropThresholds(h) ==
    [v_prop_start |-> IF in_direction(h) = "rise" THEN "low_to_high" ELSE "high_to_low",
     v_prop_end |-> IF out_direction(h) = "rise" THEN "low_to_high" ELSE "low_to_high"]

\* Lines 1108-1123.
SeqPropThresholds(h) ==
    [v_prop_start |-> IF in_direction(h) = "rise" THEN "low_to_high" ELSE "high_to_low",
     v_prop_end |-> IF out_direction(h) = "rise" THEN "low_to_high" ELSE "high_to_low"]

\* simulator.measure('tran', 'prop_in_out', ...) of the trial of harness h
\* (lines 515-517, 1132-1134).
PropThresholds(h) ==
    IF kind = "comb" THEN CombPropThresholds(h) ELSE SeqPropThresholds(h)

(***************************************************************************)
(* Worst-case selection (characterize, lines 389-402).                     *)
(***************************************************************************)
RECURSIVE filter_harnesses_by_ports(_, _, _, _)
\* The harnesses of the list that target in_port and out_port, in list order.
filter_harnesses_by_ports(list, in_port, out_port, i) ==
    IF i > Len(list) THEN <<>>
    ELSE (IF target_in_port(list[i]) = in_port /\ target_out_port(list[i]) = out_port
          THEN <<list[i]>> ELSE <<>>)
         \o filter_harnesses_by_ports(list, in_port, out_port, i + 1)

RECURSIVE FilterDirection(_, _, _)
FilterDirection(list, direction, i) ==
    IF i > Len(list) THEN <<>>
    ELSE (IF out_direction(list[i]) = direction THEN <<list[i]>> ELSE <<>>)
         \o FilterDirection(list, direction, i + 1)

\* Line 396.
matching_harnesses(list, in_port, out_port, direction) ==
    FilterDirection(filter_harnesses_by_ports(list, in_port, out_port, 1), direction, 1)

RECURSIVE PropSum(_, _)
PropSum(results, keys) ==
    IF keys = {} THEN 0
    ELSE LET k == CHOOSE x \in keys : TRUE
         IN results[k].prop_in_out + PropSum(results, keys \ {k})

\* harness.average_propagation_delay() is defined when every slot of the sweep
\* grid holds a result and the grid is not empty; else it raises.
AverageDefined(h) ==
    /\ DOMAIN h.results # {}
    /\ \A k \in DOMAIN h.results : h.results[k].filled

\* a.average_propagation_delay() < b.average_propagation_delay()
AverageLess(a, b) ==
    PropSum(a.results, DOMAIN a.results) * Cardinality(DOMAIN b.results)
        < PropSum(b.results, DOMAIN b.results) * Cardinality(DOMAIN a.results)

\* A comparison that also replaces the worst case so far on a tie.
IsWorseOrEqual(worst, h) == ~AverageLess(h, worst)

\* Line 400: the comparison that replaces the worst case so far.
IsWorse(worst, h) == AverageLess(worst, h)

RECURSIVE WorstFrom(_, _, _)
\* Lines 398-401.
WorstFrom(matching, worst, i) ==
    IF i > Len(matching) THEN worst
    ELSE WorstFrom(matching,
                   IF IsWorse(worst, matching[i]) THEN matching[i] ELSE worst,
                   i + 1)

\* Lines 397-401.
worst_case_harness(matching) == WorstFrom(matching, matching[1], 1)

\* The (out_port, in_port, direction) triples in the order of the loops of
\* lines 392-394.
Arcs ==
    [k \in 1..(Len(out_ports) * Len(in_ports) * 2) |->
        [out |-> out_ports[((k - 1) \div (2 * Len(in_ports))) + 1],
         in |-> in_ports[(((k - 1) \div 2) % Len(in_ports)) + 1],
         direction |-> Directions[((k - 1) % 2) + 1]]]

\* The (out_port, in_port) pairs in the order of the loops of lines 405-406.
Pairs ==
    [k \in 1..(Len(out_ports) * Len(in_ports)) |->
        [out |-> out_ports[((k - 1) \div Len(in_ports)) + 1],
         in |-> in_ports[((k - 1) % Len(in_ports)) + 1]]]

ArcMatching(list, arc) == matching_harnesses(list, arc.in, arc.out, arc.direction)

\* The exception the selection loop raises on an arc ("" when none).
ArcSelectionError(list, arc) ==
    IF ArcMatching(list, arc) = <<>> THEN "IndexError"
    ELSE IF \E i \in DOMAIN ArcMatching(list, arc) :
                ~AverageDefined(ArcMatching(list, arc)[i])
         THEN "ResultError"
    ELSE ""

SelectionErrors(list) ==
    {k \in DOMAIN Arcs : ArcSelectionError(list, Arcs[k]) # ""}

\* Lines 391-402: the list of worst-case harnesses, one per arc and direction.
WorstCaseHarnesses(list) ==
    [k \in DOMAIN Arcs |-> worst_case_harness(ArcMatching(list, Arcs[k]))]

(***************************************************************************)
(* Table assembly (combinational: lines 404-426, sequential: 897-918).     *)
(***************************************************************************)
\* The harness of the list with the given arc and direction: [found, h].
find_harness_by_arc(list, in_port, out_port, direction) ==
    LET found == matching_harnesses(list, in_port, out_port, direction) IN
    IF Len(found) = 1 THEN [found |-> TRUE, h |-> found[1]]
    ELSE [found |-> FALSE, h |-> NoHarness]

\* (value @ u_s).convert(settings.units.time.prefixed_unit).value: raw ticks
\* to tenths of a millionth of the library time unit.
normalize_t_units(value) == 3 * value

\* f'{value:7f}': six decimals, rounded.
Format7f(value) == (value + 5) \div 10

index_1 == [i \in DOMAIN in_slews |-> Str(in_slews[i])]
index_2 == [j \in DOMAIN out_loads |-> Str(out_loads[j])]

\* A value list filled load by load, the slew rate loop being the inner one.
ValueSlotLoadOuter(k) ==
    << index_1[((k - 1) % Len(index_1)) + 1], index_2[((k - 1) \div Len(index_1)) + 1] >>

\* The position in the value list of the slot (index_1[i], index_2[j]): the
\* slew loop is the outer one (lines 417-418).
ValueSlot(k) ==
    << index_1[((k - 1) \div Len(index_2)) + 1], index_2[((k - 1) % Len(index_2)) + 1] >>

prop_values(h) ==
    [k \in 1..(Len(index_1) * Len(index_2)) |->
        Format7f(normalize_t_units(h.results[ValueSlot(k)].prop_in_out))]

tran_values(h) ==
    [k \in 1..(Len(index_1) * Len(index_2)) |->
        Format7f(normalize_t_units(h.results[ValueSlot(k)].trans_out))]

template == <<"delay_template", Len(index_1), Len(index_2)>>

Table(values) ==
    [template |-> template, values |-> values, index_1 |-> index_1, index_2 |-> index_2]

\* timing[in_port].add_table(name, ...): the table collection is keyed by name.
add_table(tables, name, table) == (name :> table) @@ tables

\* Only the propagation table of a direction.
DirectionTablesCellOnly(tables, direction, h) ==
    add_table(tables, <<"cell", direction>>, Table(prop_values(h)))

\* The two add_table calls of one direction (lines 425-426).
DirectionTables(tables, direction, h) ==
    add_table(add_table(tables, <<"cell", direction>>, Table(prop_values(h))),
              <<direction, "transition">>, Table(tran_values(h)))

\* The body of the direction loop for one direction: the tables after it, or
\* the exception it raises.
AssembleDirection(tables, list, pair, direction) ==
    LET arc == find_harness_by_arc(list, pair.in, pair.out, direction) IN
    IF ~arc.found THEN [err |-> "LookupError", tables |-> tables]
    ELSE IF \E k \in DOMAIN arc.h.results : ~arc.h.results[k].filled
         THEN [err |-> "KeyError", tables |-> tables]
    ELSE [err |-> "", tables |-> DirectionTables(tables, direction, arc.h)]

\* pin.add_timing(related_pin): a new, empty table collection for the pin.
add_timing(pin_timing, related) == (related :> <<>>) @@ pin_timing

\* One iteration of the in_port loop: add_timing, then both directions.
AssemblePair(pin_timing, list, pair) ==
    LET rise == AssembleDirection(<<>>, list, pair, "rise")
        fall == AssembleDirection(rise.tables, list, pair, "fall")
    IN  IF rise.err # ""
        THEN [err |-> rise.err, timing |-> add_timing(pin_timing, pair.in)]
        ELSE [err |-> fall.err,
              timing |-> (pair.in :> fall.tables) @@ pin_timing]


(***************************************************************************)
(* characterize: the state after construction and the steps of a call.     *)
(***************************************************************************)
\* The pins whose input capacitance characterize measures (lines 355, 867).
in_cap_pins ==
    IF kind = "comb" THEN in_ports ELSE in_ports \o <<clock_name, set_name, reset_name>>

NumTrials == Len(in_slews) * Len(out_loads)

\* Worker threads whatever the simulator is.
RunsThreadedAlways == use_multithreaded

\* Line 368: whether the trials of a harness run in worker threads.
RunsThreaded == use_multithreaded /\ ~(simulator = "ngspice-shared")

\* Worker threads in either manager.
StartsThreadsAnyManager == RunsThreaded

\* Lines 368-380 start threads in the combinational manager; the sequential
\* manager calls _run_delay in its loops over slew rates and loads (lines
\* 884-886) and has no thread.
StartsThreads == kind = "comb" /\ RunsThreaded

\* The slew rate and the load of worker thread t (lines 370-378).
ThreadSlew(t) == in_slews[((t - 1) \div Len(out_loads)) + 1]
ThreadLoad(t) == out_loads[((t - 1) % Len(out_loads)) + 1]

InFlight == {t \in DOMAIN threads : threads[t] = "running"}
NumInFlight == Cardinality(InFlight) + (IF mainTrial THEN 1 ELSE 0)

\* harness.results[str(slew)][str(load)] = result
StoreResult(h, slew, load, result) ==
    [h EXCEPT !.results[<<Str(slew), Str(load)>>] = result]

\* The search settings a SequentialTestManager is configured with: the
\* defaults of the constructor, or bounds and timesteps its setters accept.
DefaultSearch == [highest |-> 0, lowest |-> 0, timestep |-> 0]
SearchSettings ==
    { [setup |-> DefaultSearch, hold |-> DefaultSearch],
      [setup |-> [highest |-> 5 * Tick, lowest |-> Tick, timestep |-> Tick],
       hold |-> [highest |-> 3 * Tick, lowest |-> Tick, timestep |-> Tick]] }

NoOp == [op |-> "", value |-> [type |-> "none", v |-> 0], raised |-> "",
         before |-> 0]

\* Line 438: a worker thread and the slot of harness.results it assigns, named
\* by the keys str(slew) and str(load).
SlotWriter(slew, load, t) == <<Str(slew), Str(load), t>>

InitTrace ==
    /\ simFails = 0
    /\ searchLog = <<>>
    /\ writers = {}
    /\ modeEvals = 0

\* No Characterizer is part of the run.
NoLibrary ==
    /\ cells = <<>>
    /\ passed = <<>>
    /\ characterized = <<>>
    /\ ki = 0

\* No trial has been run.
NoTrial == [setup |-> 0, hold |-> 0, run |-> FALSE]

\* The state of a call of characterize before the first call.
InitRun ==
    /\ err = ""
    /\ ai = 0
    /\ unsorted_harnesses = <<>>
    /\ harnesses = <<>>
    /\ threads = <<>>
    /\ mainTrial = FALSE
    /\ timing = [p \in Pins |-> <<>>]
    /\ wireErrs = 0
    /\ trialsAfterWireErr = 0
    /\ runs = 0
    /\ firstTiming = <<>>
    /\ phase = "none"
    /\ t_min = 0 /\ t_max = 0 /\ t_cur = 0
    /\ prev_t_prop = PrevInit
    /\ t_setup = 0 /\ t_hold = 0
    /\ nTrials = 0
    /\ lastFailed = FALSE
    /\ trialArgs = NoTrial
    /\ storedAt = [k \in DOMAIN harness.results |-> NoTrial]
    /\ InitTrace

\* A timestep taken from the largest slew rate.
AutoTimestepOfMax(slews) == Max(Range(slews)) \div 10

\* sim_timestep 'auto': 1/10 of the smallest slew rate (line 270).
AutoTimestep(slews) == Min(Range(slews)) \div 10

\* clock_slew 'auto': the smallest slew rate (line 654).
AutoClockSlew(slews) == Min(Range(slews))

\* Lines 733, 751, 809: 'auto' of a bound.
AutoLowestOfMax(slews) == Max(Range(slews)) * (0 - 10)
AutoLowestOfMin(slews) == Min(Range(slews)) * (0 - 10)
AutoHighest(slews) == Max(Range(slews)) * 10

\* The clock_slew property, lines 635-639: the smallest slew rate while no
\* clock slew rate is stored.
ClockSlew == IF in_slews # <<>> /\ clock_slew = 0 THEN Min(Range(in_slews)) ELSE clock_slew

\* Lines 1048-1061: the times of the clock and data events of a sequential
\* delay trial.
EventTimes(slew, t_s, t_h) ==
    LET clk_slew == ClockSlew
        data_slew == slew
        t_stabilizing == 100 * data_slew
        t_clk_edge_1_start == data_slew + t_s
        t_clk_edge_1_end == t_clk_edge_1_start + clk_slew
        t_clk_edge_2_start == t_clk_edge_1_end + t_h
        t_clk_edge_2_end == t_clk_edge_2_start + clk_slew
        t_removal == t_clk_edge_2_end + t_h
        t_data_edge_1_start == t_removal + t_stabilizing
        t_data_edge_1_end == t_data_edge_1_start + data_slew
        t_clk_edge_3_start == t_data_edge_1_end + t_s
        t_clk_edge_3_end == t_clk_edge_3_start + clk_slew
        t_data_edge_2_start == t_clk_edge_3_end + t_h
        t_data_edge_2_end == t_data_edge_2_start + data_slew
        t_sim_end == t_data_edge_2_end + t_stabilizing
    IN  [t_clk_edge_1_start |-> t_clk_edge_1_start, t_clk_edge_1_end |-> t_clk_edge_1_end,
         t_clk_edge_2_start |-> t_clk_edge_2_start, t_clk_edge_2_end |-> t_clk_edge_2_end,
         t_removal |-> t_removal,
         t_data_edge_1_start |-> t_data_edge_1_start, t_data_edge_1_end |-> t_data_edge_1_end,
         t_clk_edge_3_start |-> t_clk_edge_3_start, t_clk_edge_3_end |-> t_clk_edge_3_end,
         t_data_edge_2_start |-> t_data_edge_2_start, t_data_edge_2_end |-> t_data_edge_2_end,
         t_sim_end |-> t_sim_end]

InitSearchSettings(s) ==
    /\ sim_setup_highest = s.setup.highest
    /\ sim_setup_lowest = s.setup.lowest
    /\ sim_setup_timestep = s.setup.timestep
    /\ sim_hold_highest = s.hold.highest
    /\ sim_hold_lowest = s.hold.lowest
    /\ sim_hold_timestep = s.hold.timestep

\* A configured manager (slews, loads, test vectors, netlist definition,
\* settings), before characterize is called.  The sequential manager never
\* branches on settings.simulator: the other simulator is tried with worker
\* threads asked for, on a netlist that matches and a simulator that converges.
Init ==
    /\ kind \in {"comb", "seq"}
    /\ flop_pins = ModelPins
    /\ in_slews \in SlewLists
    /\ out_loads \in LoadLists
    /\ stored_test_vectors \in {<<>>} \cup VectorLists(kind)
    /\ test_vectors = <<>>
    /\ definition_ports \in DefinitionPorts(kind)
    /\ use_multithreaded \in BOOLEAN
    /\ simulator \in {"ngspice-shared", "ngspice-subprocess"}
    /\ Len(in_slews) * Len(out_loads) <= MaxGrid
    /\ sim \in Sims
    /\ sim.failVec # 0 => (sim.bias = 0 /\ definition_ports = MatchedPorts(kind))
    /\ (kind = "seq" /\ simulator # "ngspice-shared") =>
          /\ use_multithreaded
          /\ sim = [free |-> FALSE, bias |-> 0, failVec |-> 0]
          /\ definition_ports = MatchedPorts(kind)
          /\ stored_test_vectors = <<>>
    /\ in_slews = <<SlewAt(2), SlewAt(2)>> =>
          (Len(out_loads) = 1 /\ sim = [free |-> FALSE, bias |-> 0, failVec |-> 0])
    /\ sim_timestep = IF in_slews = <<>> THEN 0 ELSE AutoTimestep(in_slews)
    /\ clock_slew = 0
    /\ \E s \in SearchSettings :
          /\ kind = "comb" => s.setup = DefaultSearch
          /\ InitSearchSettings(s)
    /\ lastOp = NoOp
    /\ pc = "idle"
    /\ ci = 0 /\ vi = 0 /\ si = 0 /\ li = 0
    /\ harness = NoHarness
    /\ capacitance = [p \in Pins |-> 0]
    /\ simCalls = 0
    /\ InitRun
    /\ NoLibrary

\* characterize(settings) is called.
Characterize ==
    /\ pc \in {"idle", "returned"}
    /\ runs < MaxRuns
    /\ pc' = "cap"
    /\ err' = ""
    /\ ci' = 1
    /\ unsorted_harnesses' = <<>>
    /\ harnesses' = <<>>
    /\ simCalls' = 0
    /\ wireErrs' = 0
    /\ trialsAfterWireErr' = 0
    /\ simFails' = 0
    /\ searchLog' = <<>>
    /\ writers' = {}
    /\ modeEvals' = 0
    /\ threads' = <<>>
    /\ UNCHANGED <<library, storedAt, config, test_vectors, search, vi, si, li, ai, harness,
                   mainTrial, capacitance, timing, runs, firstTiming>>

\* Lines 355-357 (872-874): one iteration of the input capacitance loop.
MeasureCapacitance ==
    /\ pc = "cap"
    /\ ci <= Len(in_cap_pins)
    /\ capacitance' = [capacitance EXCEPT ![in_cap_pins[ci]] =
                           InputCapacitance(in_cap_pins[ci])]
    /\ simCalls' = simCalls + 1
    /\ ci' = ci + 1
    /\ UNCHANGED <<library, trace, config, test_vectors, search, pc, err, vi, si, li, ai, harness,
                   unsorted_harnesses, harnesses, threads, mainTrial, timing,
                   wireErrs, trialsAfterWireErr, runs, firstTiming>>

\* The capacitance loop is over: the test vector loop starts on what the
\* test_vectors property returns (line 361, 878).
BeginVectors ==
    /\ pc = "cap"
    /\ ci > Len(in_cap_pins)
    /\ pc' = "vector"
    /\ test_vectors' = TestVectorsProperty(stored_test_vectors)
    /\ vi' = 1
    /\ UNCHANGED <<library, trace, config, search, err, ci, si, li, ai, harness,
                   unsorted_harnesses, harnesses, threads, mainTrial, capacitance,
                   timing, simCalls, wireErrs, trialsAfterWireErr, runs,
                   firstTiming>>

\* Lines 361-380 (878-884): the harness of the next test vector; in the
\* combinational manager's threaded mode every worker thread of the harness
\* is created and started.
NextVector ==
    /\ pc = "vector"
    /\ vi <= Len(test_vectors)
    /\ harness' = NewHarness(test_vectors[vi])
    /\ writers' = {}
    /\ searchLog' = <<>>
    /\ storedAt' = [k \in ResultKeys |-> NoTrial]
    /\ modeEvals' = IF kind = "comb" THEN modeEvals + 1 ELSE modeEvals
    /\ IF StartsThreads
       THEN /\ threads' = [t \in 1..NumTrials |-> "ready"]
            /\ pc' = "join"
            /\ UNCHANGED <<si, li>>
       ELSE /\ pc' = "trials"
            /\ si' = 1
            /\ li' = 1
            /\ threads' = <<>>
    /\ UNCHANGED <<library, simFails, config, test_vectors, search, err, ci, vi, ai, unsorted_harnesses, harnesses,
                   mainTrial, capacitance, timing, simCalls, wireErrs,
                   trialsAfterWireErr, runs, firstTiming>>

\* A worker thread runs _run_delay up to the simulator call: the wiring of
\* _run_delay_trial raises in the thread, or the simulation starts.
ThreadBegin(t) ==
    /\ threads[t] = "ready"
    /\ trialsAfterWireErr' = trialsAfterWireErr + (IF wireErrs > 0 THEN 1 ELSE 0)
    /\ IF Wiring(harness) = "ok"
       THEN /\ threads' = [threads EXCEPT ![t] = "running"]
            /\ simCalls' = simCalls + 1
            /\ UNCHANGED wireErrs
       ELSE /\ threads' = [threads EXCEPT ![t] = "dead"]
            /\ wireErrs' = wireErrs + 1
            /\ UNCHANGED simCalls
    /\ UNCHANGED <<library, trace, config, test_vectors, search, pc, err, ci, vi, si, li, ai, harness,
                   unsorted_harnesses, harnesses, mainTrial, capacitance, timing,
                   runs, firstTiming>>

\* The simulation of a worker thread returns: the result is stored in the
\* thread's slot (line 438), or the failure ends the thread.
ThreadEnd(t) ==
    /\ threads[t] = "running"
    /\ LET result == Transient(harness.vec, ThreadSlew(t), ThreadLoad(t)) IN
       IF result = Failed
       THEN /\ threads' = [threads EXCEPT ![t] = "dead"]
            /\ simFails' = simFails + 1
            /\ UNCHANGED <<harness, writers>>
       ELSE /\ threads' = [threads EXCEPT ![t] = "done"]
            /\ harness' = StoreResult(harness, ThreadSlew(t), ThreadLoad(t), result)
            /\ writers' = writers \cup {SlotWriter(ThreadSlew(t), ThreadLoad(t), t)}
            /\ UNCHANGED simFails
    /\ UNCHANGED <<library, searchLog, modeEvals, storedAt, config, test_vectors, search, pc, err, ci, vi, si, li, ai,
                   unsorted_harnesses, harnesses, mainTrial, capacitance, timing,
                   simCalls, wireErrs, trialsAfterWireErr, runs, firstTiming>>

\* A thread a join() returns for: its target has returned or raised.
Joined(t) == threads[t] \in {"done", "dead"}

\* A join loop that waits for the first thread only.
FirstJoined == IF Len(threads) = 0 THEN TRUE ELSE Joined(1)

\* Lines 379-380: [thread.join() for thread in threads].
AllJoined == \A t \in DOMAIN threads : Joined(t)

\* Lines 380 and 387: every thread is joined, the harness is saved.
JoinThreads ==
    /\ pc = "join"
    /\ AllJoined
    /\ unsorted_harnesses' = Append(unsorted_harnesses, harness)
    /\ vi' = vi + 1
    /\ pc' = "vector"
    /\ UNCHANGED <<library, trace, config, test_vectors, search, err, ci, si, li, ai, harness, harnesses,
                   threads, mainTrial, capacitance, timing, simCalls, wireErrs,
                   trialsAfterWireErr, runs, firstTiming>>

TrialsLeft == si <= Len(in_slews) /\ li <= Len(out_loads)

\* Loops that take the next slew after every trial.
NextSlewIndexEveryTrial == si + 1

\* The loop indices after the trial of (si, li): the load loop is the inner one.
NextSlewIndex == IF li < Len(out_loads) THEN si ELSE si + 1
NextLoadIndex == IF li < Len(out_loads) THEN li + 1 ELSE 1

\* Lines 383-385: the calling thread runs _run_delay up to the simulator call.
TrialBegin ==
    /\ pc = "trials"
    /\ kind = "comb"
    /\ ~mainTrial
    /\ TrialsLeft
    /\ trialsAfterWireErr' = trialsAfterWireErr + (IF wireErrs > 0 THEN 1 ELSE 0)
    /\ IF Wiring(harness) = "ok"
       THEN /\ mainTrial' = TRUE
            /\ simCalls' = simCalls + 1
            /\ UNCHANGED <<pc, err, wireErrs>>
       ELSE /\ pc' = "raised"
            /\ err' = Wiring(harness)
            /\ wireErrs' = wireErrs + 1
            /\ UNCHANGED <<mainTrial, simCalls>>
    /\ UNCHANGED <<library, trace, config, test_vectors, search, ci, vi, si, li, ai, harness,
                   unsorted_harnesses, harnesses, threads, capacitance, timing,
                   runs, firstTiming>>

\* The simulation of the calling thread returns: the result is stored (line
\* 438) and the loops move on, or the failure leaves characterize.
TrialEnd ==
    /\ pc = "trials"
    /\ kind = "comb"
    /\ mainTrial
    /\ mainTrial' = FALSE
    /\ LET result == Transient(harness.vec, in_slews[si], out_loads[li]) IN
       IF result = Failed
       THEN /\ pc' = "raised"
            /\ err' = "SimulationError"
            /\ simFails' = simFails + 1
            /\ UNCHANGED <<harness, si, li>>
       ELSE /\ harness' = StoreResult(harness, in_slews[si], out_loads[li], result)
            /\ si' = NextSlewIndex
            /\ li' = NextLoadIndex
            /\ UNCHANGED <<pc, err, simFails>>
    /\ UNCHANGED <<library, searchLog, writers, modeEvals, storedAt, config, test_vectors, search, ci, vi, ai, unsorted_harnesses, harnesses,
                   threads, capacitance, timing, simCalls, wireErrs,
                   trialsAfterWireErr, runs, firstTiming>>

\* Line 387 (887): the trial loops of the calling thread are over, the harness
\* is saved.
SaveHarness ==
    /\ pc = "trials"
    /\ ~mainTrial
    /\ phase = "none"
    /\ ~TrialsLeft
    /\ unsorted_harnesses' = Append(unsorted_harnesses, harness)
    /\ vi' = vi + 1
    /\ pc' = "vector"
    /\ UNCHANGED <<library, trace, config, test_vectors, search, err, ci, si, li, ai, harness, harnesses,
                   threads, mainTrial, capacitance, timing, simCalls, wireErrs,
                   trialsAfterWireErr, runs, firstTiming>>

\* A loop over the test vectors that is left after the first harness.
VectorsDoneEarly == vi > 1

\* The loop over the test vectors (lines 361-387, 878-887) is over.
VectorsDone == vi > Len(test_vectors)

\* Lines 389-402: the worst-case harness of every arc and direction, or the
\* exception of the first arc that raises.
SelectWorstCase ==
    /\ pc = "vector"
    /\ kind = "comb"
    /\ VectorsDone
    /\ IF SelectionErrors(unsorted_harnesses) = {}
       THEN /\ harnesses' = WorstCaseHarnesses(unsorted_harnesses)
            /\ pc' = "tables"
            /\ ai' = 1
            /\ UNCHANGED err
       ELSE /\ pc' = "raised"
            /\ err' = ArcSelectionError(unsorted_harnesses,
                          Arcs[Min(SelectionErrors(unsorted_harnesses))])
            /\ UNCHANGED <<harnesses, ai>>
    /\ UNCHANGED <<library, trace, config, test_vectors, search, ci, vi, si, li, harness, unsorted_harnesses,
                   threads, mainTrial, capacitance, timing, simCalls, wireErrs,
                   trialsAfterWireErr, runs, firstTiming>>

RECURSIVE AddClockTimings(_, _)
\* Lines 892-894: every input pin gets a timing entry related to the clock.
AddClockTimings(tm, i) ==
    IF i > Len(in_ports) THEN tm
    ELSE AddClockTimings([tm EXCEPT ![in_ports[i]] = add_timing(@, clock_name)], i + 1)

\* Lines 887-895: the sequential manager's harness list is complete; the input
\* pins get their timing entries.
FinishHarnesses ==
    /\ pc = "vector"
    /\ kind = "seq"
    /\ VectorsDone
    /\ harnesses' = unsorted_harnesses
    /\ timing' = AddClockTimings(timing, 1)
    /\ pc' = "tables"
    /\ ai' = 1
    /\ UNCHANGED <<library, trace, config, test_vectors, search, err, ci, vi, si, li, harness,
                   unsorted_harnesses, threads, mainTrial, capacitance, simCalls,
                   wireErrs, trialsAfterWireErr, runs, firstTiming>>

\* Lines 405-426 (898-918): one (out_port, in_port) iteration of the table
\* loops.
StoreTiming ==
    /\ pc = "tables"
    /\ ai <= Len(Pairs)
    /\ LET step == AssemblePair(timing[Pairs[ai].out], harnesses, Pairs[ai]) IN
       /\ timing' = [timing EXCEPT ![Pairs[ai].out] = step.timing]
       /\ IF step.err = ""
          THEN ai' = ai + 1 /\ UNCHANGED <<pc, err>>
          ELSE pc' = "raised" /\ err' = step.err /\ UNCHANGED ai
    /\ UNCHANGED <<library, trace, config, test_vectors, search, ci, vi, si, li, harness, unsorted_harnesses,
                   harnesses, threads, mainTrial, capacitance, simCalls, wireErrs,
                   trialsAfterWireErr, runs, firstTiming>>

\* characterize returns.
Return ==
    /\ pc = "tables"
    /\ ai > Len(Pairs)
    /\ pc' = "returned"
    /\ runs' = runs + 1
    /\ firstTiming' = IF runs = 0 THEN timing ELSE firstTiming
    /\ UNCHANGED <<library, trace, config, test_vectors, search, err, ci, vi, si, li, ai, harness,
                   unsorted_harnesses, harnesses, threads, mainTrial, capacitance,
                   timing, simCalls, wireErrs, trialsAfterWireErr>>

(***************************************************************************)
(* SequentialTestManager._run_delay: the setup search, then the hold       *)
(* search (lines 929-998).                                                 *)
(***************************************************************************)
Abs(x) == IF x < 0 THEN 0 - x ELSE x

\* The bounds and the timestep of the search that is running or has just
\* returned.
SearchHighest == IF phase \in {"setup", "found_setup"} THEN sim_setup_highest
                 ELSE sim_hold_highest
SearchLowest == IF phase \in {"setup", "found_setup"} THEN sim_setup_lowest
                ELSE sim_hold_lowest
SearchTimestep == IF phase \in {"setup", "found_setup"} THEN sim_setup_timestep
                  ELSE sim_hold_timestep

\* A search that probes the lower quarter point of the interval.
QuarterPoint(lo, hi) == lo + ((hi - lo) \div 4)

\* (t_max + t_min) / 2
Midpoint(lo, hi) == (hi + lo) \div 2

\* A search that starts two timesteps further above highest.
SearchMaxWide(highest, timestep) == highest + 3 * timestep

\* Lines 937-938 (970-971): the allowable times, corrected for the timestep.
SearchMax(highest, timestep) == highest + timestep
SearchMin(lowest, timestep) == lowest - timestep

ResultSlot == <<Str(in_slews[si]), Str(out_loads[li])>>

\* The measurement the previous search ended with.
LastPrevTProp == prev_t_prop

\* Line 939 (972): prev_t_prop = 1.0, a very large value.
FirstPrevTProp == PrevInit

\* A hold offset taken from the other end of the hold interval.
SetupSearchHoldLowest == sim_hold_lowest

\* Line 931: the setup search runs its trials with t_hold = sim_hold_highest.
SetupSearchHold == sim_hold_highest

\* Lines 944 and 977: the t_setup and t_hold _run_delay_trial is called with
\* for the midpoint mid.
TrialArgs(mid) ==
    IF phase = "setup"
    THEN [setup |-> mid, hold |-> SetupSearchHold, run |-> TRUE]
    ELSE [setup |-> t_setup, hold |-> mid, run |-> TRUE]

\* _run_delay calls a search for the (slew, load) of the loop indices.
Invoked(log, which) ==
    Append(log, [si |-> si, li |-> li, which |-> which, returned |-> FALSE, t |-> 0])

\* Line 965 (998): the search invoked last returns the offset t.
Returned(log, t) ==
    [log EXCEPT ![Len(log)] = [@ EXCEPT !.returned = TRUE, !.t = t]]

\* A loop whose body runs whatever the bounds are.
LoopRunsAlways(lo, hi) == TRUE

\* Line 941 (974): while t_min <= t_max.
LoopRuns(lo, hi) == lo <= hi

\* Lines 931, 937-939: _find_setup_time starts; with t_min > t_max the loop
\* body never runs and the return statement reads an unbound name.
FindSetupTime ==
    /\ pc = "trials"
    /\ kind = "seq"
    /\ phase = "none"
    /\ TrialsLeft
    /\ searchLog' = Invoked(searchLog, "setup")
    /\ t_max' = SearchMax(sim_setup_highest, sim_setup_timestep)
    /\ t_min' = SearchMin(sim_setup_lowest, sim_setup_timestep)
    /\ prev_t_prop' = FirstPrevTProp
    /\ nTrials' = 0
    /\ IF LoopRuns(SearchMin(sim_setup_lowest, sim_setup_timestep),
                   SearchMax(sim_setup_highest, sim_setup_timestep))
       THEN phase' = "setup" /\ UNCHANGED <<pc, err>>
       ELSE pc' = "raised" /\ err' = "UnboundLocalError" /\ UNCHANGED phase
    /\ UNCHANGED <<library, simFails, writers, modeEvals, storedAt, config,
                   test_vectors, lastFailed, trialArgs, t_cur, t_setup, t_hold, ci, vi, si, li, ai, harness,
                   unsorted_harnesses, harnesses, threads, mainTrial, capacitance,
                   timing, simCalls, wireErrs, trialsAfterWireErr, runs,
                   firstTiming>>

\* Lines 932, 970-972: _find_hold_time starts with the setup time returned.
FindHoldTime ==
    /\ pc = "trials"
    /\ phase = "found_setup"
    /\ searchLog' = Invoked(searchLog, "hold")
    /\ t_max' = SearchMax(sim_hold_highest, sim_hold_timestep)
    /\ t_min' = SearchMin(sim_hold_lowest, sim_hold_timestep)
    /\ prev_t_prop' = FirstPrevTProp
    /\ nTrials' = 0
    /\ IF LoopRuns(SearchMin(sim_hold_lowest, sim_hold_timestep),
                   SearchMax(sim_hold_highest, sim_hold_timestep))
       THEN phase' = "hold" /\ UNCHANGED <<pc, err>>
       ELSE pc' = "raised" /\ err' = "UnboundLocalError" /\ UNCHANGED phase
    /\ UNCHANGED <<library, simFails, writers, modeEvals, storedAt, config,
                   test_vectors, lastFailed, trialArgs, t_cur, t_setup, t_hold, ci, vi, si, li, ai, harness,
                   unsorted_harnesses, harnesses, threads, mainTrial, capacitance,
                   timing, simCalls, wireErrs, trialsAfterWireErr, runs,
                   firstTiming>>

\* A test that asks for less than one timestep between the midpoints.
AccurateBelowTimestep(mid, next) == Abs(mid - next) < SearchTimestep

\* Line 956 (989): the next midpoint is not more than one timestep away.
Accurate(mid, next) == ~(Abs(mid - next) > SearchTimestep)

\* A comparison that looks at the stored measurement only.
SlowerByMeasurement(failed, stored) == stored.prop_in_out > prev_t_prop

\* Line 950 (983): the trial failed or the flip-flop got slower, so the
\* offset was too small.
Slower(failed, stored) == failed \/ stored.prop_in_out > prev_t_prop

\* Lines 949-965 (982-998): the rest of a loop iteration after the trial of
\* offset mid: the bounds move, the search returns mid or goes on with the
\* stored measurement as prev_t_prop.
SearchUpdate(mid, failed, result, args) ==
    LET stored == IF failed THEN harness.results[ResultSlot] ELSE result
        slower == Slower(failed, stored)
        new_min == IF slower THEN mid ELSE t_min
        new_max == IF slower THEN t_max ELSE mid
        accurate == Accurate(mid, Midpoint(new_min, new_max))
    IN  /\ harness' = [harness EXCEPT !.results[ResultSlot] = stored]
        /\ lastFailed' = failed
        /\ storedAt' = IF failed THEN storedAt
                       ELSE [storedAt EXCEPT ![ResultSlot] = args]
        /\ searchLog' = IF accurate THEN Returned(searchLog, mid) ELSE searchLog
        /\ t_min' = new_min
        /\ t_max' = new_max
        /\ nTrials' = nTrials + 1
        /\ IF ~accurate
           THEN /\ prev_t_prop' = IF stored.filled THEN stored.prop_in_out
                                  ELSE prev_t_prop
                /\ UNCHANGED <<phase, t_setup, t_hold, si, li>>
           ELSE IF phase = "setup"
           THEN /\ t_setup' = mid
                /\ phase' = "found_setup"
                /\ UNCHANGED <<prev_t_prop, t_hold, si, li>>
           ELSE /\ t_hold' = mid
                /\ phase' = "none"
                /\ si' = NextSlewIndex
                /\ li' = NextLoadIndex
                /\ UNCHANGED <<prev_t_prop, t_setup>>

\* Lines 942-947 (975-980): the loop picks the midpoint and runs
\* _run_delay_trial up to the simulator call.  A wiring error leaves
\* characterize; the NameError of line 1026 is caught and counts as a failed
\* trial.
SearchTrialBegin ==
    /\ pc = "trials"
    /\ phase \in {"setup", "hold"}
    /\ ~mainTrial
    /\ LoopRuns(t_min, t_max)
    /\ t_cur' = Midpoint(t_min, t_max)
    /\ trialArgs' = TrialArgs(Midpoint(t_min, t_max))
    /\ trialsAfterWireErr' = trialsAfterWireErr + (IF wireErrs > 0 THEN 1 ELSE 0)
    /\ IF Wiring(harness) = "ok"
       THEN /\ mainTrial' = TRUE
            /\ simCalls' = simCalls + 1
            /\ UNCHANGED <<pc, err, wireErrs, harness, t_min, t_max, nTrials,
                           prev_t_prop, phase, t_setup, t_hold, si, li,
                           lastFailed, searchLog, storedAt>>
       ELSE IF Wiring(harness) = "WiringError"
       THEN /\ pc' = "raised"
            /\ err' = "WiringError"
            /\ wireErrs' = wireErrs + 1
            /\ UNCHANGED <<mainTrial, simCalls, harness, t_min, t_max, nTrials,
                           prev_t_prop, phase, t_setup, t_hold, si, li,
                           lastFailed, searchLog, storedAt>>
       ELSE /\ SearchUpdate(Midpoint(t_min, t_max), TRUE, Failed,
                            TrialArgs(Midpoint(t_min, t_max)))
            /\ UNCHANGED <<pc, err, wireErrs, mainTrial, simCalls>>
    /\ UNCHANGED <<library, simFails, writers, modeEvals, config, test_vectors, ci, vi, ai, unsorted_harnesses, harnesses, threads,
                   capacitance, timing, runs, firstTiming>>

\* The simulation of a search trial returns a measurement or fails, and the
\* loop iteration completes.
SearchTrialEnd ==
    /\ pc = "trials"
    /\ phase \in {"setup", "hold"}
    /\ mainTrial
    /\ mainTrial' = FALSE
    /\ \E result \in SimOutcomes(harness.vec, in_slews[si], out_loads[li],
                                 trialArgs.setup, trialArgs.hold) :
          SearchUpdate(t_cur, result = Failed, result, trialArgs)
    /\ UNCHANGED <<library, simFails, writers, modeEvals, config, test_vectors, t_cur,
                   trialArgs, pc, err, ci, vi, ai, unsorted_harnesses,
                   harnesses, threads, capacitance, timing, simCalls, wireErrs,
                   trialsAfterWireErr, runs, firstTiming>>

ThreadStep == \E t \in DOMAIN threads : ThreadBegin(t) \/ ThreadEnd(t)

Next ==
    \/ Characterize
    \/ MeasureCapacitance
    \/ BeginVectors
    \/ NextVector
    \/ ThreadStep
    \/ JoinThreads
    \/ TrialBegin
    \/ TrialEnd
    \/ FindSetupTime
    \/ SearchTrialBegin
    \/ SearchTrialEnd
    \/ FindHoldTime
    \/ SaveHarness
    \/ SelectWorstCase
    \/ FinishHarnesses
    \/ StoreTiming
    \/ Return

Spec == Init /\ [][Next]_vars

(***************************************************************************)
(* The two searches on their own, against a simulator that may answer any  *)
(* trial with a failure, a faster or a slower measurement.                 *)
(***************************************************************************)
MaxRange == 17

Bounds(lowest, range, timestep) ==
    [highest |-> lowest + range, lowest |-> lowest, timestep |-> timestep]

\* Search bounds the setters accept: highest - lowest from 0 to MaxRange
\* time units, timesteps of one and two units, and one inverted pair.
SearchBounds ==
    {Bounds(Tick, r * Tick, ts * Tick) : r \in 0..MaxRange, ts \in 1..2}
        \cup {Bounds(4 * Tick, 0 - (3 * Tick), Tick)}

ShortSearch == Bounds(Tick, 0, Tick)

\* The bounds and the timestep the setters store for 'auto' (lines 733, 753,
\* 771).
AutoSearch ==
    [highest |-> AutoHighest(in_slews), lowest |-> AutoLowestOfMax(in_slews),
     timestep |-> AutoTimestep(in_slews)]

FreeSearchSettings ==
    {[setup |-> b, hold |-> ShortSearch] : b \in SearchBounds}
        \cup {[setup |-> ShortSearch, hold |-> b] : b \in SearchBounds}
        \cup {[setup |-> AutoSearch, hold |-> ShortSearch]}

\* A sequential manager inside characterize, at the first (slew, load) of the
\* harness of its first test vector.
InitSearch ==
    /\ kind = "seq"
    /\ flop_pins = ModelPins
    /\ in_slews = <<SlewAt(1)>>
    /\ out_loads = <<LoadAt(1)>>
    /\ stored_test_vectors \in {<<>>, <<UnknownStateVector>>}
    /\ test_vectors = TestVectorsProperty(stored_test_vectors)
    /\ definition_ports = MatchedPorts("seq")
    /\ use_multithreaded \in BOOLEAN
    /\ simulator = "ngspice-shared"
    /\ sim = [free |-> TRUE, bias |-> 0, failVec |-> 0]
    /\ sim_timestep = AutoTimestep(in_slews)
    /\ clock_slew = 0
    /\ \E s \in FreeSearchSettings : InitSearchSettings(s)
    /\ lastOp = NoOp
    /\ pc = "trials"
    /\ ci = Len(in_cap_pins) + 1
    /\ capacitance = [p \in Pins |-> IF p \in Range(in_cap_pins)
                                     THEN InputCapacitance(p) ELSE 0]
    /\ simCalls = Len(in_cap_pins)
    /\ vi = 1 /\ si = 1 /\ li = 1
    /\ harness = NewHarness(test_vectors[1])
    /\ InitRun
    /\ NoLibrary

NextSearch ==
    \/ FindSetupTime
    \/ SearchTrialBegin
    \/ SearchTrialEnd
    \/ FindHoldTime

SpecSearch == InitSearch /\ [][NextSearch]_vars

(***************************************************************************)
(* Properties of the searches.                                             *)
(***************************************************************************)
\* ceil(log2(num / den)) for num >= den > 0, and 0 for smaller num.
CeilLog2(num, den) == CHOOSE k \in 0..(MaxRange + 2) :
    /\ den * (2 ^ k) >= num
    /\ \A j \in 0..(k - 1) : den * (2 ^ j) < num

\* A search is running or has returned with bounds the claims speak of.
SearchConfigured ==
    /\ phase # "none" \/ nTrials > 0
    /\ SearchLowest <= SearchHighest
    /\ SearchTimestep > 0

\* The midpoints the searches compute are exact in ticks.
HalvingExact == (t_max + t_min) % 2 = 0

\* C5: with lowest <= highest and timestep > 0, whatever the trials return, a
\* search runs at most max(1, ceil(log2((highest - lowest) / timestep)))
\* trials: the loop cannot go on beyond that count, so it terminates.
C5_TrialBound ==
    SearchConfigured =>
        nTrials <= Max({1, CeilLog2(SearchHighest - SearchLowest, SearchTimestep)})

\* A setup search has returned after three or more trials.
C5_Witness ==
    /\ phase = "found_setup"
    /\ SearchConfigured
    /\ nTrials >= 3
    /\ nTrials = CeilLog2(SearchHighest - SearchLowest, SearchTimestep)

\* C5 as stated: at most ceil(log2((highest - lowest) / timestep)) trials.
C5_AsStated ==
    SearchConfigured =>
        nTrials <= CeilLog2(SearchHighest - SearchLowest, SearchTimestep)

\* C6: every offset a search simulates, and the time it returns, lies within
\* [lowest - timestep, highest + timestep] of the search's configured bounds.
C6_WithinBounds ==
    LET within(t) == /\ SearchLowest - SearchTimestep <= t
                     /\ t <= SearchHighest + SearchTimestep
    IN  /\ (phase \in {"setup", "hold"} /\ (mainTrial \/ nTrials > 0)) => within(t_cur)
        /\ phase = "found_setup" => within(t_setup)
        /\ (phase = "none" /\ nTrials > 0) => within(t_hold)

\* A hold search has returned, after several trials, a time less than a
\* timestep below highest.
C6_Witness ==
    /\ phase = "none"
    /\ nTrials >= 3
    /\ sim_hold_highest - t_hold < sim_hold_timestep

(***************************************************************************)
(* Configuration: add_in_slew, add_out_load and the sim_timestep and       *)
(* clock_slew setters, called on a manager constructed without slews,      *)
(* loads or timestep.                                                      *)
(***************************************************************************)
call == <<pc, err, ci, vi, si, li, ai, harness, unsorted_harnesses, harnesses,
          threads, mainTrial, capacitance, timing, simCalls, wireErrs,
          trialsAfterWireErr, runs, firstTiming>>

fixed == <<kind, flop_pins, stored_test_vectors, test_vectors, definition_ports, use_multithreaded, simulator,
           sim, sim_setup_highest, sim_setup_lowest, sim_setup_timestep,
           sim_hold_highest, sim_hold_lowest, sim_hold_timestep>>

Num(v) == [type |-> "num", v |-> v]
Auto == [type |-> "auto", v |-> 0]
Other == [type |-> "other", v |-> 0]

\* The arguments the calls are tried with: a number, 'auto', or a value of
\* another type.
SlewValues == {Num(SlewAt(1)), Num(SlewAt(2)), Num(0 - SlewAt(1)), Other}
LoadValues == {Num(LoadAt(1)), Num(LoadAt(2)), Num(0), Other}
SetterValues == {Auto, Other, Num(0), Num(Tick), Num(0 - Tick)}

InitConfig ==
    /\ kind \in {"comb", "seq"}
    /\ flop_pins = ModelPins
    /\ in_slews = <<>>
    /\ out_loads = <<>>
    /\ stored_test_vectors = [i \in 1..MaxVectors |-> VectorAt(kind, i)]
    /\ test_vectors = <<>>
    /\ definition_ports = MatchedPorts(kind)
    /\ use_multithreaded = FALSE
    /\ simulator = "ngspice-shared"
    /\ sim = [free |-> FALSE, bias |-> 0, failVec |-> 0]
    /\ sim_timestep = 0
    /\ clock_slew = 0
    /\ InitSearchSettings([setup |-> DefaultSearch, hold |-> DefaultSearch])
    /\ lastOp = NoOp
    /\ pc = "config"
    /\ ci = 0 /\ vi = 0 /\ si = 0 /\ li = 0
    /\ harness = NoHarness
    /\ capacitance = [p \in Pins |-> 0]
    /\ simCalls = 0
    /\ InitRun
    /\ NoLibrary

\* float(value) raises for a value that is not a number (lines 220, 229).
FloatRaises(value) == value.type # "num"

\* add_in_slew(value), lines 218-220.
AddInSlew(value) ==
    /\ pc = "config"
    /\ Len(in_slews) < MaxSlews
    /\ in_slews' = IF FloatRaises(value) THEN in_slews ELSE Append(in_slews, value.v)
    /\ lastOp' = [op |-> "add_in_slew", value |-> value,
                  raised |-> IF FloatRaises(value) THEN "ValueError" ELSE "",
                  before |-> 0]
    /\ UNCHANGED <<library, trace, fixed, call, search, out_loads, sim_timestep, clock_slew>>

\* add_out_load(value), lines 227-229.
AddOutLoad(value) ==
    /\ pc = "config"
    /\ Len(out_loads) < MaxLoads
    /\ out_loads' = IF FloatRaises(value) THEN out_loads ELSE Append(out_loads, value.v)
    /\ lastOp' = [op |-> "add_out_load", value |-> value,
                  raised |-> IF FloatRaises(value) THEN "ValueError" ELSE "",
                  before |-> 0]
    /\ UNCHANGED <<library, trace, fixed, call, search, in_slews, sim_timestep, clock_slew>>

\* The sim_timestep setter, lines 264-278.
SetSimTimestep(value) ==
    /\ pc = "config"
    /\ LET raised == IF value.type = "auto"
                     THEN (IF in_slews # <<>> THEN "" ELSE "ValueError")
                     ELSE IF value.type = "num" THEN "" ELSE "TypeError"
       IN  /\ sim_timestep' = IF raised # "" THEN sim_timestep
                              ELSE IF value.type = "auto" THEN AutoTimestep(in_slews)
                              ELSE value.v
           /\ lastOp' = [op |-> "sim_timestep", value |-> value, raised |-> raised,
                         before |-> sim_timestep]
    /\ UNCHANGED <<library, trace, fixed, call, search, in_slews, out_loads, clock_slew>>

\* The clock_slew setter of the sequential manager, lines 641-656.
SetClockSlew(value) ==
    /\ pc = "config"
    /\ kind = "seq"
    /\ LET raised == IF value.type = "num"
                     THEN (IF value.v > 0 THEN "" ELSE "ValueError")
                     ELSE IF value.type = "auto"
                     THEN (IF in_slews = <<>> THEN "ValueError" ELSE "")
                     ELSE "TypeError"
       IN  /\ clock_slew' = IF raised # "" THEN clock_slew
                            ELSE IF value.type = "auto" THEN AutoClockSlew(in_slews)
                            ELSE value.v
           /\ lastOp' = [op |-> "clock_slew", value |-> value, raised |-> raised,
                         before |-> clock_slew]
    /\ UNCHANGED <<library, trace, fixed, call, search, in_slews, out_loads, sim_timestep>>

NextConfig ==
    \/ \E value \in SlewValues : AddInSlew(value)
    \/ \E value \in LoadValues : AddOutLoad(value)
    \/ \E value \in SetterValues : SetSimTimestep(value)
    \/ \E value \in SetterValues : SetClockSlew(value)

SpecConfig == InitConfig /\ [][NextConfig]_vars

\* C9: 'auto' for the simulation timestep or the clock slew raises and leaves
\* the stored value as it was when the slew list is empty; otherwise it stores
\* one tenth of the smallest slew rate, respectively the smallest slew rate.
C9_AutoSetters ==
    /\ (lastOp.op = "sim_timestep" /\ lastOp.value = Auto) =>
          IF in_slews = <<>>
          THEN lastOp.raised # "" /\ sim_timestep = lastOp.before
          ELSE /\ lastOp.raised = ""
               /\ \A i \in DOMAIN in_slews : 10 * sim_timestep <= in_slews[i]
               /\ \E i \in DOMAIN in_slews : 10 * sim_timestep = in_slews[i]
    /\ (lastOp.op = "clock_slew" /\ lastOp.value = Auto) =>
          IF in_slews = <<>>
          THEN lastOp.raised # "" /\ clock_slew = lastOp.before
          ELSE /\ lastOp.raised = ""
               /\ \A i \in DOMAIN in_slews : clock_slew <= in_slews[i]
               /\ \E i \in DOMAIN in_slews : clock_slew = in_slews[i]

\* 'auto' was refused for a clock slew that held a value, the slew list being
\* empty.
C9_Witness ==
    /\ lastOp.op = "clock_slew"
    /\ lastOp.value = Auto
    /\ in_slews = <<>>
    /\ lastOp.raised = "ValueError"
    /\ lastOp.before = Tick
    /\ clock_slew = Tick

(***************************************************************************)
(* The four search-bound setters of the sequential manager, called on a   *)
(* manager with or without slew rates.                                     *)
(***************************************************************************)
others == <<library, trace, call, search, kind, flop_pins, in_slews, out_loads,
            stored_test_vectors, test_vectors, definition_ports, use_multithreaded,
            simulator, sim, sim_timestep, clock_slew, sim_setup_timestep,
            sim_hold_timestep>>

InitBounds ==
    /\ kind = "seq"
    /\ flop_pins = ModelPins
    /\ in_slews \in {<<>>} \cup SlewLists
    /\ out_loads = <<LoadAt(1)>>
    /\ stored_test_vectors = <<>>
    /\ test_vectors = <<>>
    /\ definition_ports = MatchedPorts(kind)
    /\ use_multithreaded = FALSE
    /\ simulator = "ngspice-shared"
    /\ sim = [free |-> FALSE, bias |-> 0, failVec |-> 0]
    /\ sim_timestep = IF in_slews = <<>> THEN 0 ELSE AutoTimestep(in_slews)
    /\ clock_slew = 0
    /\ \E s \in SearchSettings : InitSearchSettings(s)
    /\ lastOp = NoOp
    /\ pc = "config"
    /\ ci = 0 /\ vi = 0 /\ si = 0 /\ li = 0
    /\ harness = NoHarness
    /\ capacitance = [p \in Pins |-> 0]
    /\ simCalls = 0
    /\ InitRun
    /\ NoLibrary

\* What a bound setter raises for a value: lines 723-735 and alike.
BoundRaises(value) ==
    IF value.type = "num" THEN (IF value.v > 0 THEN "" ELSE "ValueError")
    ELSE IF value.type = "auto" THEN (IF in_slews = <<>> THEN "ValueError" ELSE "")
    ELSE "TypeError"

\* The value a setter stores: the number given, or the 'auto' value.
Stored(value, auto) == IF value.type = "auto" THEN auto ELSE value.v

\* The sim_setup_lowest setter, lines 721-735.
SetSimSetupLowest(value) ==
    /\ pc = "config"
    /\ sim_setup_lowest' = IF BoundRaises(value) # "" THEN sim_setup_lowest
                           ELSE Stored(value, AutoLowestOfMax(in_slews))
    /\ lastOp' = [op |-> "sim_setup_lowest", value |-> value,
                  raised |-> BoundRaises(value), before |-> sim_setup_lowest]
    /\ UNCHANGED <<others, sim_setup_highest, sim_hold_lowest, sim_hold_highest>>

\* The sim_setup_highest setter, lines 741-755.
SetSimSetupHighest(value) ==
    /\ pc = "config"
    /\ sim_setup_highest' = IF BoundRaises(value) # "" THEN sim_setup_highest
                            ELSE Stored(value, AutoHighest(in_slews))
    /\ lastOp' = [op |-> "sim_setup_highest", value |-> value,
                  raised |-> BoundRaises(value), before |-> sim_setup_highest]
    /\ UNCHANGED <<others, sim_setup_lowest, sim_hold_lowest, sim_hold_highest>>

\* The sim_hold_lowest setter, lines 782-796.
SetSimHoldLowest(value) ==
    /\ pc = "config"
    /\ sim_hold_lowest' = IF BoundRaises(value) # "" THEN sim_hold_lowest
                          ELSE Stored(value, AutoLowestOfMin(in_slews))
    /\ lastOp' = [op |-> "sim_hold_lowest", value |-> value,
                  raised |-> BoundRaises(value), before |-> sim_hold_lowest]
    /\ UNCHANGED <<others, sim_setup_lowest, sim_setup_highest, sim_hold_highest>>

\* The sim_hold_highest setter, lines 802-816: a number is stored in
\* _sim_hold_highest (line 806), the 'auto' value in _sim_hold_lowest
\* (line 812).
SetSimHoldHighest(value) ==
    /\ pc = "config"
    /\ sim_hold_highest' = IF value.type = "num" /\ BoundRaises(value) = ""
                           THEN value.v ELSE sim_hold_highest
    /\ sim_hold_lowest' = IF value.type = "auto" /\ BoundRaises(value) = ""
                          THEN AutoHighest(in_slews) ELSE sim_hold_lowest
    /\ lastOp' = [op |-> "sim_hold_highest", value |-> value,
                  raised |-> BoundRaises(value), before |-> sim_hold_highest]
    /\ UNCHANGED <<others, sim_setup_lowest, sim_setup_highest>>

NextBounds ==
    \/ \E value \in SetterValues : SetSimSetupLowest(value)
    \/ \E value \in SetterValues : SetSimSetupHighest(value)
    \/ \E value \in SetterValues : SetSimHoldLowest(value)
    \/ \E value \in SetterValues : SetSimHoldHighest(value)

SpecBounds == InitBounds /\ [][NextBounds]_vars

\* C23: with slew rates, 'auto' sets the bound named to ten times (highest)
\* or minus ten times (lowest) the largest or the smallest slew rate, and the
\* other three bounds keep their values.
C23_AsStated ==
    [][(lastOp'.value = Auto /\ in_slews # <<>>) =>
          LET extremes == {Max(Range(in_slews)), Min(Range(in_slews))}
          IN  /\ lastOp'.op = "sim_setup_lowest" =>
                    /\ \E x \in extremes : sim_setup_lowest' = (0 - 10) * x
                    /\ UNCHANGED <<sim_setup_highest, sim_hold_lowest, sim_hold_highest>>
              /\ lastOp'.op = "sim_setup_highest" =>
                    /\ \E x \in extremes : sim_setup_highest' = 10 * x
                    /\ UNCHANGED <<sim_setup_lowest, sim_hold_lowest, sim_hold_highest>>
              /\ lastOp'.op = "sim_hold_lowest" =>
                    /\ \E x \in extremes : sim_hold_lowest' = (0 - 10) * x
                    /\ UNCHANGED <<sim_setup_lowest, sim_setup_highest, sim_hold_highest>>
              /\ lastOp'.op = "sim_hold_highest" =>
                    /\ \E x \in extremes : sim_hold_highest' = 10 * x
                    /\ UNCHANGED <<sim_setup_lowest, sim_setup_highest, sim_hold_lowest>>]_vars

\* The same for the three setters other than sim_hold_highest.
C23_OtherThree ==
    [][(lastOp'.value = Auto /\ in_slews # <<>> /\ lastOp'.op # "sim_hold_highest") =>
          LET extremes == {Max(Range(in_slews)), Min(Range(in_slews))}
          IN  /\ lastOp'.op = "sim_setup_lowest" =>
                    /\ \E x \in extremes : sim_setup_lowest' = (0 - 10) * x
                    /\ UNCHANGED <<sim_setup_highest, sim_hold_lowest, sim_hold_highest>>
              /\ lastOp'.op = "sim_setup_highest" =>
                    /\ \E x \in extremes : sim_setup_highest' = 10 * x
                    /\ UNCHANGED <<sim_setup_lowest, sim_hold_lowest, sim_hold_highest>>
              /\ lastOp'.op = "sim_hold_lowest" =>
                    /\ \E x \in extremes : sim_hold_lowest' = (0 - 10) * x
                    /\ UNCHANGED <<sim_setup_lowest, sim_setup_highest, sim_hold_highest>>]_vars

(***************************************************************************)
(* The Characterizer: add_cell, add_flop and characterize, on a library   *)
(* without cells.                                                          *)
(***************************************************************************)
\* What belongs to the managers, not to the Characterizer.
manager == <<trace, config, test_vectors, search, err, ci, vi, si, li, ai, harness,
             unsorted_harnesses, harnesses, threads, mainTrial, capacitance,
             timing, simCalls, wireErrs, trialsAfterWireErr, runs, firstTiming>>

\* The cell object a call of add_cell or add_flop creates.
NewCell(type) == [name |-> Len(cells) + 1, type |-> type]

\* The argument lists characterize is called with: no cell, or up to
\* MaxPassed cells of the library, in any order and with repetitions.
PassedLists ==
    UNION {[1..n -> Range(cells)] : n \in 0..MaxPassed}

\* A loop over all the cells whatever was passed.
TargetCellsAll == cells

\* Line 50: cells if cells else self.cells
TargetCells == IF passed # <<>> THEN passed ELSE cells

InitLibrary ==
    /\ kind = "comb"
    /\ flop_pins = ModelPins
    /\ in_slews = <<>>
    /\ out_loads = <<>>
    /\ stored_test_vectors = <<>>
    /\ test_vectors = <<>>
    /\ definition_ports = MatchedPorts(kind)
    /\ use_multithreaded = FALSE
    /\ simulator = "ngspice-shared"
    /\ sim = [free |-> FALSE, bias |-> 0, failVec |-> 0]
    /\ sim_timestep = 0
    /\ clock_slew = 0
    /\ InitSearchSettings([setup |-> DefaultSearch, hold |-> DefaultSearch])
    /\ lastOp = NoOp
    /\ pc = "library"
    /\ ci = 0 /\ vi = 0 /\ si = 0 /\ li = 0
    /\ harness = NoHarness
    /\ capacitance = [p \in Pins |-> 0]
    /\ simCalls = 0
    /\ InitRun
    /\ NoLibrary

\* add_cell(...), lines 29-31.
AddCell ==
    /\ pc \in {"library", "cells_returned", "cells_raised"}
    /\ Len(cells) < MaxCells
    /\ cells' = Append(cells, NewCell("comb"))
    /\ pc' = "library"
    /\ UNCHANGED <<manager, passed, characterized, ki>>

\* add_flop(...), lines 33-35.
AddFlop ==
    /\ pc \in {"library", "cells_returned", "cells_raised"}
    /\ Len(cells) < MaxCells
    /\ cells' = Append(cells, NewCell("seq"))
    /\ pc' = "library"
    /\ UNCHANGED <<manager, passed, characterized, ki>>

\* characterize is called with the cells args, lines 46-50.
CharacterizeCells(args) ==
    /\ pc \in {"library", "cells_returned", "cells_raised"}
    /\ passed' = args
    /\ characterized' = <<>>
    /\ ki' = 1
    /\ pc' = "cells"
    /\ UNCHANGED <<manager, cells>>

\* Line 51: cell.characterize(self.settings) is called for the next cell of
\* the loop, and returns or raises.
CharacterizeCell ==
    /\ pc = "cells"
    /\ ki <= Len(TargetCells)
    /\ characterized' = Append(characterized, TargetCells[ki])
    /\ \/ ki' = ki + 1 /\ pc' = "cells"
       \/ ki' = ki /\ pc' = "cells_raised"
    /\ UNCHANGED <<manager, cells, passed>>

\* The loop of line 50 is over: characterize returns.
CellsReturn ==
    /\ pc = "cells"
    /\ ki > Len(TargetCells)
    /\ pc' = "cells_returned"
    /\ UNCHANGED <<manager, library>>

NextLibrary ==
    \/ AddCell
    \/ AddFlop
    \/ \E args \in PassedLists : CharacterizeCells(args)
    \/ CharacterizeCell
    \/ CellsReturn

SpecLibrary == InitLibrary /\ [][NextLibrary]_vars

\* C15: characterize() calls characterize on the added cells, each once and
\* in the order they were added; called with cells, it calls it on the passed
\* cells, in the passed order, and on no other cell.
C15_CellOrder ==
    /\ \A i, j \in DOMAIN cells : cells[i] = cells[j] => i = j
    /\ pc \in {"cells", "cells_returned", "cells_raised"} =>
          /\ Len(characterized) <= Len(IF passed = <<>> THEN cells ELSE passed)
          /\ \A n \in DOMAIN characterized :
                characterized[n] = IF passed = <<>> THEN cells[n] ELSE passed[n]
    /\ pc = "cells_returned" =>
          characterized = IF passed = <<>> THEN cells ELSE passed

\* characterize(c2, c1) has returned on a library of three cells, and
\* characterize() on a library of a cell and a flop.
C15_Witness ==
    /\ pc = "cells_returned"
    /\ \/ /\ Len(cells) = 3
          /\ passed = <<cells[2], cells[1]>>
          /\ characterized = <<cells[2], cells[1]>>
       \/ /\ Len(cells) = 2
          /\ cells[1].type = "comb" /\ cells[2].type = "seq"
          /\ passed = <<>>
          /\ characterized = cells

(***************************************************************************)
(* Properties of characterize.                                             *)
(***************************************************************************)
TableNames ==
    {<<"cell", "rise">>, <<"rise", "transition">>,
     <<"cell", "fall">>, <<"fall", "transition">>}

\* The measurement a table of the given name holds, and its direction.
TableField(name, result) ==
    IF name[1] = "cell" THEN result.prop_in_out ELSE result.trans_out
TableDirection(name) == IF name[1] = "cell" THEN name[2] ELSE name[1]

\* The table lists the measurements of harness h, slew rate by slew rate and
\* load by load within a slew rate.
TableReads(table, name, h) ==
    \A i \in DOMAIN in_slews : \A j \in DOMAIN out_loads :
        table.values[(i - 1) * Len(out_loads) + j] =
            Format7f(normalize_t_units(
                TableField(name, h.results[<<Str(in_slews[i]), Str(out_loads[j])>>])))

\* C1: every table on a pin has m*n values, the value at position i*n+j is
\* the measurement the timing source of the table's arc stored for
\* (S[i], L[j]), and the index lists are S and L in their declared order.
C1_TableLayout ==
    pc \in {"tables", "returned"} =>
        \A out \in Pins : \A in \in DOMAIN timing[out] :
            \A name \in DOMAIN timing[out][in] :
                LET table == timing[out][in][name]
                    sources == matching_harnesses(harnesses, in, out,
                                                  TableDirection(name))
                IN  /\ Len(table.values) = Len(in_slews) * Len(out_loads)
                    /\ table.index_1 = [i \in DOMAIN in_slews |-> Str(in_slews[i])]
                    /\ table.index_2 = [j \in DOMAIN out_loads |-> Str(out_loads[j])]
                    /\ \E k \in DOMAIN sources : TableReads(table, name, sources[k])

\* The combinational manager has returned with tables over a grid of two slew
\* rates and two loads.
C1_Witness ==
    /\ pc = "returned"
    /\ kind = "comb"
    /\ Len(in_slews) = 2
    /\ Len(out_loads) = 2
    /\ Len(timing["Y"]["B"][<<"fall", "transition">>].values) = 4

\* C2: the harness chosen for an arc is a matching harness of maximum average
\* propagation delay, the first such in test-vector order, and selecting
\* again over the same list chooses it again.
C2_WorstCase ==
    (kind = "comb" /\ pc \in {"tables", "returned"}) =>
        \A a \in DOMAIN Arcs :
            LET matching == ArcMatching(unsorted_harnesses, Arcs[a])
            IN  /\ \E k \in DOMAIN matching :
                      /\ harnesses[a] = matching[k]
                      /\ \A j \in DOMAIN matching : ~AverageLess(matching[k], matching[j])
                      /\ \A j \in 1..(k - 1) : AverageLess(matching[j], matching[k])
                /\ worst_case_harness(matching) = harnesses[a]

\* Two harnesses of an arc tie for the maximum, and the selection is over.
C2_Witness ==
    /\ kind = "comb"
    /\ pc = "returned"
    /\ LET matching == ArcMatching(unsorted_harnesses, Arcs[1])
       IN  /\ Len(matching) = 2
           /\ ~AverageLess(matching[1], matching[2])
           /\ ~AverageLess(matching[2], matching[1])
           /\ harnesses[1] = matching[1]

\* C3: when characterize has returned, every declared arc has its two tables
\* cell_<direction> and <direction>_transition, and nothing else, on the
\* output pin under the input pin's name.
C3_TablesComplete ==
    pc = "returned" =>
        \A p \in DOMAIN Pairs :
            /\ Pairs[p].in \in DOMAIN timing[Pairs[p].out]
            /\ DOMAIN timing[Pairs[p].out][Pairs[p].in] = TableNames

\* The sequential manager has returned with tables for the arcs of both data
\* pins.
C3_Witness ==
    /\ pc = "returned"
    /\ kind = "seq"
    /\ NumTrials > 0
    /\ DOMAIN timing["Q"]["D"] = TableNames
    /\ DOMAIN timing["Q"]["E"] = TableNames

\* C4: a second call of characterize leaves the timing tables of the first.
C4_Idempotent ==
    (pc = "returned" /\ runs >= 2) => timing = firstTiming

\* A sequential manager whose searches take several trials has returned from
\* its second call.
C4_Witness ==
    /\ pc = "returned"
    /\ runs = 2
    /\ kind = "seq"
    /\ NumTrials = 4
    /\ sim_setup_timestep > 0
    /\ timing = firstTiming

\* C7: with the simulator 'ngspice-shared' the combinational manager has at
\* most one delay trial in flight, whatever use_multithreaded is.
C7_OneInFlight ==
    (kind = "comb" /\ simulator = "ngspice-shared") => NumInFlight <= 1

\* With use_multithreaded set and 'ngspice-shared', the last trial of a
\* harness of four trials is in flight.
C7_Witness ==
    /\ kind = "comb"
    /\ simulator = "ngspice-shared"
    /\ use_multithreaded
    /\ mainTrial
    /\ si = 2 /\ li = 2
    /\ NumInFlight = 1

\* C8 as stated: with an empty slew or load list characterize makes no
\* simulator call and does not return.
C8_AsStated ==
    ((in_slews = <<>> \/ out_loads = <<>>) /\ pc # "idle") =>
        /\ simCalls = 0
        /\ pc # "returned"

\* C10 as stated: once the wiring of a trial has raised, no further trial is
\* started and characterize stops with that error as soon as the calling
\* thread is past the trial (in threaded mode: past the join).
C10_AsStated ==
    wireErrs > 0 =>
        /\ trialsAfterWireErr = 0
        /\ pc \in {"raised", "join"}
        /\ pc = "raised" => err = "WiringError"

\* C11 as stated: once the simulator call of a combinational delay trial has
\* failed, characterize has raised, or the calling thread is still in the join
\* of the failing harness and raises when the join is over (the failure is not
\* lost at join); in either case it never returns and writes no timing table.
C11_AsStated ==
    (kind = "comb" /\ simFails > 0) =>
        /\ pc \in {"raised", "join"}
        /\ runs = 0 => \A p \in Pins : timing[p] = <<>>

\* The (slew, load) pairs whose _run_delay has returned, for the harness of
\* the running loops.
PairsDone ==
    IF si > Len(in_slews) THEN NumTrials
    ELSE ((si - 1) * Len(out_loads)) + (li - 1)

\* C12: in SequentialTestManager.characterize with generated test vectors,
\* the harnesses are those of the (output, data input, direction) triples,
\* one each and in loop order, and for each harness and each (slew, load)
\* pair, in loop order, the setup search and then the hold search are invoked
\* exactly once, and each search that returns yields one time within
\* [lowest, highest] of its configured bounds.
C12_SearchOnce ==
    (kind = "seq" /\ stored_test_vectors = <<>> /\ pc \in {"trials", "vector"}) =>
        /\ Len(unsorted_harnesses) <= Len(Arcs)
        /\ \A k \in DOMAIN unsorted_harnesses :
              /\ target_out_port(unsorted_harnesses[k]) = Arcs[k].out
              /\ target_in_port(unsorted_harnesses[k]) = Arcs[k].in
              /\ in_direction(unsorted_harnesses[k]) = Arcs[k].direction
        /\ \A k \in DOMAIN searchLog :
              /\ searchLog[k].which = IF k % 2 = 1 THEN "setup" ELSE "hold"
              /\ ((searchLog[k].si - 1) * Len(out_loads)) + searchLog[k].li
                     = (k + 1) \div 2
              /\ k < Len(searchLog) => searchLog[k].returned
              /\ searchLog[k].returned =>
                    IF searchLog[k].which = "setup"
                    THEN /\ sim_setup_lowest <= searchLog[k].t
                         /\ searchLog[k].t <= sim_setup_highest
                    ELSE /\ sim_hold_lowest <= searchLog[k].t
                         /\ searchLog[k].t <= sim_hold_highest
        /\ (pc = "trials" /\ phase = "none") =>
              /\ Len(searchLog) = 2 * PairsDone
              /\ searchLog # <<>> => searchLog[Len(searchLog)].returned
        /\ (pc = "vector" /\ vi > 1) =>
              /\ Len(searchLog) = 2 * NumTrials
              /\ searchLog # <<>> => searchLog[Len(searchLog)].returned
        /\ (pc = "vector" /\ vi > Len(test_vectors)) =>
              Len(unsorted_harnesses) = Len(Arcs)

\* The harness of the last triple has been saved after the searches of four
\* (slew, load) pairs, with bounds that are not the defaults.
C12_Witness ==
    /\ kind = "seq"
    /\ stored_test_vectors = <<>>
    /\ pc = "vector"
    /\ Len(unsorted_harnesses) = Len(Arcs)
    /\ Len(searchLog) = 8
    /\ sim_setup_highest > sim_setup_lowest
    /\ \E k \in DOMAIN searchLog : searchLog[k].t > sim_hold_lowest

\* C13: what the test_vectors property returns to characterize is exactly the
\* stored list (same vectors, same order) when vectors were supplied, and
\* generated vectors only when none were: those of the output functions
\* (combinational), or one vector per (output, data input, direction) with
\* the clock pattern, zeroed registers and every other pin at "0"
\* (sequential).
C13_StoredVerbatim ==
    pc \notin {"idle", "cap", "config"} =>
        IF stored_test_vectors # <<>>
        THEN test_vectors = stored_test_vectors
        ELSE IF kind = "comb"
        THEN test_vectors = CombGenerated
        ELSE test_vectors = SubSeq(SeqVectorPool, 1, 4)

\* characterize iterates over five supplied vectors, which are not the ones
\* generation would give.
C13_Witness ==
    /\ pc = "vector"
    /\ Len(stored_test_vectors) = 5
    /\ stored_test_vectors # Generated
    /\ test_vectors = stored_test_vectors

\* C14 as stated: after any sequence of add_in_slew and add_out_load calls
\* every entry of the slew list and of the load list is strictly positive.
C14_AsStated ==
    /\ \A i \in DOMAIN in_slews : in_slews[i] > 0
    /\ \A j \in DOMAIN out_loads : out_loads[j] > 0

\* C16: in threaded mode the harness of a test vector has one worker thread
\* per (slew, load) pair, and the calling thread is past the join (the harness
\* is appended, results are read by the selection and the table assembly)
\* only when every worker thread of the harness has ended; the harnesses
\* appended are those of the vectors before the current one.
C16_ForkJoin ==
    (kind = "comb" /\ RunsThreaded /\ pc \notin {"idle", "cap"}) =>
        /\ pc = "join" =>
              /\ Len(threads) = Len(in_slews) * Len(out_loads)
              /\ \A i \in DOMAIN in_slews : \A j \in DOMAIN out_loads :
                    /\ ThreadSlew(((i - 1) * Len(out_loads)) + j) = in_slews[i]
                    /\ ThreadLoad(((i - 1) * Len(out_loads)) + j) = out_loads[j]
              /\ Len(unsorted_harnesses) = vi - 1
        /\ pc # "join" =>
              /\ \A t \in DOMAIN threads : threads[t] \in {"done", "dead"}
              /\ Len(unsorted_harnesses) = vi - 1

\* The second harness has been appended after its four worker threads ended.
C16_Witness ==
    /\ kind = "comb"
    /\ RunsThreaded
    /\ pc = "vector"
    /\ Len(unsorted_harnesses) = 2
    /\ Len(threads) = 4
    /\ \A t \in DOMAIN threads : threads[t] = "done"

\* C17 as stated: no two worker threads of a harness write the same slot of
\* the harness's results map.
C17_AsStated ==
    \A w1, w2 \in writers :
        (w1[1] = w2[1] /\ w1[2] = w2[2]) => w1[3] = w2[3]

\* C18 as stated: the condition that chooses between worker threads and
\* sequential trials is evaluated at most once in a call of characterize.
C18_AsStated == modeEvals <= 1

\* C19: a step that writes a pin of the cell (its capacitance or its timing)
\* is taken while no worker thread is unfinished and no trial is in flight,
\* and a step that writes timing is taken only when the trials of every test
\* vector's harness are over and every harness is in the list.
C19_PinWrites ==
    [][/\ (capacitance' # capacitance \/ timing' # timing) =>
              /\ \A t \in DOMAIN threads : threads[t] \in {"done", "dead"}
              /\ ~mainTrial
              /\ phase = "none"
       /\ timing' # timing =>
              /\ vi > Len(test_vectors)
              /\ Len(unsorted_harnesses) = Len(test_vectors)]_vars

\* In threaded mode the first timing entries have been written on the output
\* pin, after the four worker threads of the last harness ended.
C19_Witness ==
    /\ kind = "comb"
    /\ RunsThreaded
    /\ Len(threads) = 4
    /\ pc = "tables"
    /\ ai > 1
    /\ \E p \in Pins : timing[p] # <<>>

\* C20: in every iteration of a search, if the trial at the midpoint failed
\* or measured a propagation delay larger than the one the search compares
\* with (the measurement of the previous iteration when that trial succeeded),
\* the lower bound becomes the midpoint and the upper bound is unchanged;
\* otherwise the upper bound becomes the midpoint and the lower bound is
\* unchanged.  When the search goes on after a failed trial, its next offset
\* is not the offset of that trial.
C20_Bisect ==
    [][nTrials' = nTrials + 1 =>
          /\ IF lastFailed' \/ harness'.results[ResultSlot].prop_in_out > prev_t_prop
             THEN t_min' = t_cur' /\ t_max' = t_max
             ELSE t_max' = t_cur' /\ t_min' = t_min
          /\ (~lastFailed' /\ phase' = phase) =>
                prev_t_prop' = harness'.results[ResultSlot].prop_in_out
          /\ (lastFailed' /\ phase' = phase) =>
                (t_min' + t_max') \div 2 # t_cur']_vars

\* A setup search goes on after a failed trial that followed other trials: the
\* lower bound is at the offset of the failed trial.
C20_Witness ==
    /\ phase = "setup"
    /\ nTrials >= 2
    /\ ~mainTrial
    /\ lastFailed
    /\ t_min = t_cur
    /\ harness.results[ResultSlot].filled

\* C21: a search stops at the end of an iteration exactly when the midpoint
\* just simulated and the next midpoint differ by no more than one timestep of
\* that search, and the time it then returns is the midpoint just simulated.
C21_StopsWhenAccurate ==
    [][nTrials' = nTrials + 1 =>
          LET mid == t_cur'
              next == (t_min' + t_max') \div 2
              gap == IF mid < next THEN next - mid ELSE mid - next
              timestep == IF phase = "setup" THEN sim_setup_timestep
                          ELSE sim_hold_timestep
          IN  /\ (phase' # phase) <=> (gap <= timestep)
              /\ (phase = "setup" /\ phase' # phase) =>
                    (phase' = "found_setup" /\ t_setup' = mid)
              /\ (phase = "hold" /\ phase' # phase) =>
                    (phase' = "none" /\ t_hold' = mid)]_vars

\* A hold search has returned after three trials, the last midpoint being
\* exactly one timestep away from the next one.
C21_Witness ==
    /\ phase = "none"
    /\ nTrials = 3
    /\ t_hold = t_cur
    /\ Abs(t_cur - ((t_min + t_max) \div 2)) = sim_hold_timestep

\* C22: for each (slew, load) the hold search is invoked after the setup
\* search of the same pair has returned; every trial of the setup search is
\* called with the hold offset sim_hold_highest, and every trial of the hold
\* search with the setup time the setup search returned.
C22_SetupThenHold ==
    /\ (phase = "setup" /\ mainTrial) =>
          trialArgs = [setup |-> t_cur, hold |-> sim_hold_highest, run |-> TRUE]
    /\ (phase = "hold" /\ pc = "trials") =>
          /\ Len(searchLog) >= 2
          /\ searchLog[Len(searchLog)].which = "hold"
          /\ searchLog[Len(searchLog) - 1].which = "setup"
          /\ searchLog[Len(searchLog) - 1].returned
          /\ searchLog[Len(searchLog) - 1].si = si
          /\ searchLog[Len(searchLog) - 1].li = li
          /\ searchLog[Len(searchLog) - 1].t = t_setup
          /\ mainTrial =>
                trialArgs = [setup |-> searchLog[Len(searchLog) - 1].t,
                             hold |-> t_cur, run |-> TRUE]

\* The second trial of a hold search is in flight, at an offset that is not
\* the setup time; the setup search before it ran with a hold offset above
\* the lowest one.
C22_Witness ==
    /\ phase = "hold"
    /\ mainTrial
    /\ nTrials = 1
    /\ trialArgs.setup = t_setup
    /\ trialArgs.hold # t_setup
    /\ sim_hold_highest > sim_hold_lowest

(***************************************************************************)
(* The test_vectors property, read on a manager of any pin configuration. *)
(***************************************************************************)
InitVectors ==
    /\ kind \in {"comb", "seq"}
    /\ flop_pins \in FlopPins
    /\ kind = "comb" => flop_pins = ModelPins
    /\ in_slews \in SlewLists
    /\ out_loads = <<LoadAt(1)>>
    /\ stored_test_vectors \in {<<>>} \cup VectorLists(kind)
    /\ test_vectors = <<>>
    /\ definition_ports = MatchedPorts(kind)
    /\ use_multithreaded = FALSE
    /\ simulator = "ngspice-shared"
    /\ sim = [free |-> FALSE, bias |-> 0, failVec |-> 0]
    /\ sim_timestep = IF in_slews = <<>> THEN 0 ELSE AutoTimestep(in_slews)
    /\ clock_slew = 0
    /\ InitSearchSettings([setup |-> DefaultSearch, hold |-> DefaultSearch])
    /\ lastOp = NoOp
    /\ pc = "config"
    /\ ci = 0 /\ vi = 0 /\ si = 0 /\ li = 0
    /\ harness = NoHarness
    /\ capacitance = [p \in Pins |-> 0]
    /\ simCalls = 0
    /\ InitRun
    /\ NoLibrary

\* manager.test_vectors is read (lines 329-340, 839-861).
ReadTestVectors ==
    /\ pc = "config"
    /\ test_vectors = <<>>
    /\ test_vectors' = TestVectorsProperty(stored_test_vectors)
    /\ UNCHANGED <<library, trace, config, search, call>>

NextVectors == ReadTestVectors

SpecVectors == InitVectors /\ [][NextVectors]_vars

\* C24: without stored vectors the sequential manager's test_vectors holds
\* one vector per output, data input and direction, the outputs in the outer
\* loop, then the inputs, then '01' before '10'; each vector has one entry for
\* the clock, the set, the reset, every register, input and output, starts
\* with '0101' for a posedge clock and '1010' for a negedge clock, holds set
\* and reset at '0' when posedge-triggered and at '1' when negedge-triggered,
\* every register at '0', the target input and the target output at the
\* direction and every other input and output at '0'.
C24_Generated ==
    (kind = "seq" /\ stored_test_vectors = <<>> /\ test_vectors # <<>>) =>
        LET nOut == Len(out_ports)
            nIn == Len(in_ports)
            nFlops == Len(flops)
            dirs == <<"01", "10">>
        IN  /\ Len(test_vectors) = nOut * nIn * 2
            /\ \A o \in 1..nOut : \A i \in 1..nIn : \A d \in 1..2 :
                  LET v == test_vectors[((o - 1) * nIn + (i - 1)) * 2 + d]
                  IN  /\ Len(v) = 1 + 1 + 1 + nFlops + nIn + nOut
                      /\ v[1] = (IF flop_pins.clock = "posedge" THEN "0101" ELSE "1010")
                      /\ v[2] = (IF flop_pins.set = "posedge" THEN "0" ELSE "1")
                      /\ v[3] = (IF flop_pins.reset = "posedge" THEN "0" ELSE "1")
                      /\ \A f \in 1..nFlops : v[3 + f] = "0"
                      /\ \A j \in 1..nIn :
                            v[3 + nFlops + j] = (IF j = i THEN dirs[d] ELSE "0")
                      /\ \A q \in 1..nOut :
                            v[3 + nFlops + nIn + q] = (IF q = o THEN dirs[d] ELSE "0")

\* The vectors of a negedge-clocked flip-flop with two outputs, a
\* negedge-triggered set and a posedge-triggered reset have been generated.
C24_Witness ==
    /\ kind = "seq"
    /\ stored_test_vectors = <<>>
    /\ flop_pins = [clock |-> "negedge", set |-> "negedge", reset |-> "posedge",
                    out_ports |-> <<"Q", "QN">>]
    /\ Len(test_vectors) = 8
    /\ test_vectors[6] = <<"1010", "1", "0", "0", "10", "0", "0", "10">>

\* C25: during characterize of the sequential manager at most one simulation
\* trial is in flight at any time, whatever use_multithreaded and the
\* simulator are.
C25_OneTrialInFlight ==
    kind = "seq" => NumInFlight <= 1

\* With use_multithreaded set and the simulator 'ngspice-subprocess', a trial
\* of the hold search at the second slew rate is in flight.
C25_Witness ==
    /\ kind = "seq"
    /\ use_multithreaded
    /\ simulator = "ngspice-subprocess"
    /\ phase = "hold"
    /\ si = 2
    /\ mainTrial
    /\ NumInFlight = 1

\* C26: the prop_in_out measurement of a combinational delay trial triggers
\* at the low-to-high threshold for a rising and at the high-to-low threshold
\* for a falling input, and targets the low-to-high threshold for a rising and
\* the high-to-low threshold for a falling output, as the sequential trial
\* does for the same directions.
C26_AsStated ==
    (kind = "comb" /\ NumInFlight >= 1) =>
        /\ PropThresholds(harness).v_prop_start =
              (IF in_direction(harness) = "rise" THEN "low_to_high" ELSE "high_to_low")
        /\ PropThresholds(harness).v_prop_end =
              (IF out_direction(harness) = "rise" THEN "low_to_high" ELSE "high_to_low")
        /\ PropThresholds(harness) = SeqPropThresholds(harness)

\* The same for the trials of the sequential manager.
C26_Sequential ==
    (kind = "seq" /\ NumInFlight >= 1) =>
        /\ PropThresholds(harness).v_prop_start =
              (IF in_direction(harness) = "rise" THEN "low_to_high" ELSE "high_to_low")
        /\ PropThresholds(harness).v_prop_end =
              (IF out_direction(harness) = "rise" THEN "low_to_high" ELSE "high_to_low")

\* The event times of the trial in flight.
TrialTimes == EventTimes(in_slews[si], trialArgs.setup, trialArgs.hold)

\* C27: in every trial of the setup and hold searches, 'auto' bounds
\* included, the event times are ordered: 0 <= clock edge 1 start < clock edge
\* 1 end <= clock edge 2 start < clock edge 2 end <= removal < data edge 1
\* start < data edge 1 end <= clock edge 3 start < clock edge 3 end <= data
\* edge 2 start < data edge 2 end < simulation end.
C27_AsStated ==
    (kind = "seq" /\ mainTrial) =>
        LET e == TrialTimes
        IN  /\ 0 <= e.t_clk_edge_1_start
            /\ e.t_clk_edge_1_start < e.t_clk_edge_1_end
            /\ e.t_clk_edge_1_end <= e.t_clk_edge_2_start
            /\ e.t_clk_edge_2_start < e.t_clk_edge_2_end
            /\ e.t_clk_edge_2_end <= e.t_removal
            /\ e.t_removal < e.t_data_edge_1_start
            /\ e.t_data_edge_1_start < e.t_data_edge_1_end
            /\ e.t_data_edge_1_end <= e.t_clk_edge_3_start
            /\ e.t_clk_edge_3_start < e.t_clk_edge_3_end
            /\ e.t_clk_edge_3_end <= e.t_data_edge_2_start
            /\ e.t_data_edge_2_start < e.t_data_edge_2_end
            /\ e.t_data_edge_2_end < e.t_sim_end

\* The same for searches whose lowest bounds are numbers the setters accept.
C27_NumberBounds ==
    (kind = "seq" /\ mainTrial /\ sim_setup_lowest >= 0 /\ sim_hold_lowest >= 0
        /\ sim_setup_timestep >= 0 /\ sim_hold_timestep >= 0) =>
        LET e == TrialTimes
        IN  /\ 0 <= e.t_clk_edge_1_start
            /\ e.t_clk_edge_1_start < e.t_clk_edge_1_end
            /\ e.t_clk_edge_1_end <= e.t_clk_edge_2_start
            /\ e.t_clk_edge_2_start < e.t_clk_edge_2_end
            /\ e.t_clk_edge_2_end <= e.t_removal
            /\ e.t_removal < e.t_data_edge_1_start
            /\ e.t_data_edge_1_start < e.t_data_edge_1_end
            /\ e.t_data_edge_1_end <= e.t_clk_edge_3_start
            /\ e.t_clk_edge_3_start < e.t_clk_edge_3_end
            /\ e.t_clk_edge_3_end <= e.t_data_edge_2_start
            /\ e.t_data_edge_2_start < e.t_data_edge_2_end
            /\ e.t_data_edge_2_end < e.t_sim_end

\* _run_delay has just returned for the (slew, load) of the last two entries
\* of searchLog.
RunDelayReturned ==
    /\ Len(searchLog) >= 2
    /\ searchLog[Len(searchLog) - 1].which = "setup"
    /\ searchLog[Len(searchLog)].which = "hold"
    /\ searchLog[Len(searchLog)].returned

\* The slot of harness.results of that (slew, load).
ReturnedSlot ==
    <<Str(in_slews[searchLog[Len(searchLog)].si]), Str(out_loads[searchLog[Len(searchLog)].li])>>

\* C28: when _run_delay has returned for a (slew, load), the result stored in
\* its slot of harness.results is the result of the trial at the setup time
\* and the hold time the searches returned, whatever the trials' outcomes
\* were.
C28_AsStated ==
    RunDelayReturned =>
        storedAt[ReturnedSlot] = [setup |-> searchLog[Len(searchLog) - 1].t,
                                  hold |-> searchLog[Len(searchLog)].t,
                                  run |-> TRUE]

\* The same when the last trial of the hold search did not fail.
C28_LastTrialMeasured ==
    (RunDelayReturned /\ ~lastFailed) =>
        storedAt[ReturnedSlot] = [setup |-> searchLog[Len(searchLog) - 1].t,
                                  hold |-> searchLog[Len(searchLog)].t,
                                  run |-> TRUE]

\* C29: a sequential delay trial whose harness gives a stable input port a
\* state that is neither '0' nor '1' makes characterize fail with an error;
\* the search does not count it as a failed trial and go on.
C29_AsStated ==
    (kind = "seq" /\ Wiring(harness) = "InvalidState" /\ phase \in {"setup", "hold"}
        /\ trialArgs.run) =>
        (pc = "raised" /\ nTrials = 0)

\* The search the last entry of searchLog stands for has inverted bounds.
InvertedBounds ==
    IF searchLog[Len(searchLog)].which = "setup"
    THEN sim_setup_lowest - sim_setup_timestep > sim_setup_highest + sim_setup_timestep
    ELSE sim_hold_lowest - sim_hold_timestep > sim_hold_highest + sim_hold_timestep

\* C30: a search whose bounds are inverted, lowest - timestep above highest +
\* timestep, runs no trial and ends characterize with an error instead of
\* returning a time; and a time a search returns is the midpoint its last
\* trial was run with.
C30_NoTrialNoTime ==
    Len(searchLog) >= 1 =>
        LET last == searchLog[Len(searchLog)]
        IN  /\ InvertedBounds =>
                  /\ ~last.returned
                  /\ nTrials = 0
                  /\ ~mainTrial
                  /\ pc = "raised"
                  /\ err = "UnboundLocalError"
            /\ last.returned =>
                  /\ nTrials >= 1
                  /\ trialArgs.run
                  /\ last.t = t_cur
                  /\ last.t = (IF last.which = "setup" THEN trialArgs.setup
                               ELSE trialArgs.hold)

\* The hold search was called with inverted bounds after a setup search that
\* returned a time: it has run no trial and characterize has failed.
C30_Witness ==
    /\ Len(searchLog) = 2
    /\ searchLog[1].returned
    /\ searchLog[2].which = "hold"
    /\ InvertedBounds
    /\ ~searchLog[2].returned
    /\ nTrials = 0
    /\ pc = "raised"

====
